---- MODULE Spec2Model ----
(***************************************************************************)
(* Model of the CactusTree interaction core: the mouse / touch handlers of *)
(* mouseHandlers.js (pan, zoom-to-point, hover, tap detection).            *)
(*                                                                         *)
(* Numbers that the handlers compute with (pan offset, zoom factor) are    *)
(* exact rationals <<n, d>> with d > 0 in lowest terms.  Pointer           *)
(* coordinates are integers drawn from a small set of points whose         *)
(* pairwise distances are integers, so that Math.sqrt is exact on them.    *)
(***************************************************************************)
EXTENDS Integers, Sequences, FiniteSets, TLC

VARIABLES
  state,     \* the shared component state object handed to every handler
  fingers,   \* the touches currently on the surface (event.touches), client coords
  rendered,  \* number of scheduleRender() calls made by the last handler
  clicked,   \* node ids passed to state.onNodeClick by the last handler
  threw,     \* TRUE iff the last handler ended by throwing
  last,      \* the last event handled: its kind and canvas position
  multiTouch,\* two touches were down together during the current touch gesture
  dragFrom,  \* the drag in progress: <<device, pan offset and pointer position
             \* at its pointer down>>, or <<>> when no drag is in progress
  steps,     \* number of events handled so far
  limit,     \* number of events delivered in this run
  input,     \* arguments handed to the library functions
  output,    \* the last library call: function, arguments and returned value
  window,    \* the page's window object (devicePixelRatio)
  canvases,  \* the canvas elements of the page, by reference
  setupCache,       \* the setup cache of canvasUtils.js (_lastCanvasRef, ...)
  _colorAlphaCache  \* the color+alpha cache of canvasUtils.js

vars == <<state, fingers, rendered, clicked, threw, last, multiTouch, dragFrom,
          steps, limit, input, output, window, canvases, setupCache,
          _colorAlphaCache>>

----------------------------------------------------------------------------
(* Bounds of the model *)

\* number of events delivered in one run
MaxSteps == 3

\* number of setupCanvas calls made in one run
MaxSetups == 3

\* number of colorWithAlpha calls with ever new arguments made in one run
MaxSweep == 260

\* number of touch events delivered in one run of touch events only
MaxTouchSteps == 5

\* number of nodes of the trees handed to the collapse functions
MaxTreeNodes == 4

\* largest x coordinate of the points handed to the hit tests
MaxCoordinate == 12

\* number of equal steps the progress interval [0, 1] is divided into
EaseSteps == 20

\* largest denominator a pan offset or zoom factor may reach
MaxDenominator == 1000

----------------------------------------------------------------------------
(* Exact rational arithmetic *)

Abs(n) == IF n < 0 THEN -n ELSE n

RECURSIVE Gcd(_, _)
Gcd(a, b) == IF b = 0 THEN a ELSE Gcd(b, a % b)

\* the rational n/d (d # 0) in lowest terms with a positive denominator
Rat(n, d) ==
  LET g == Gcd(Abs(n), Abs(d))
      s == IF d < 0 THEN -1 ELSE 1
  IN  <<(s * n) \div g, (s * d) \div g>>

I(n) == <<n, 1>>

\* sums and comparisons go through the least common denominator, products
\* are cross-reduced first, so that intermediate values stay small
RAdd(a, b) ==
  LET g == Gcd(a[2], b[2])
  IN  Rat(a[1] * (b[2] \div g) + b[1] * (a[2] \div g), (a[2] \div g) * b[2])
RNeg(a)    == <<-a[1], a[2]>>
RSub(a, b) == RAdd(a, RNeg(b))
RMul(a, b) ==
  LET g1 == Gcd(Abs(a[1]), b[2])
      g2 == Gcd(Abs(b[1]), a[2])
  IN  Rat((a[1] \div g1) * (b[1] \div g2), (a[2] \div g2) * (b[2] \div g1))
RDiv(a, b) == RMul(a, Rat(b[2], b[1]))
RLt(a, b)  ==
  LET g == Gcd(a[2], b[2])
  IN  a[1] * (b[2] \div g) < b[1] * (a[2] \div g)
RLe(a, b)  == ~RLt(b, a)
RMax(a, b) == IF RLt(a, b) THEN b ELSE a
RMin(a, b) == IF RLt(b, a) THEN b ELSE a

\* Math.sqrt on the perfect squares the chosen points produce
Sqrt(n) == CHOOSE r \in 0..n : r * r = n

----------------------------------------------------------------------------
(* The environment: canvas geometry, pointer positions, the laid-out scene *)

\* canvas.getBoundingClientRect()
CanvasRect == [left |-> 10, top |-> 20]

\* width and height handed to createMouseHandlers
CanvasSize == [width |-> 6, height |-> 8]

\* canvas-local pointer positions: the corners of a 3-4-5 triangle
Points == {<<0, 0>>, <<3, 0>>, <<3, 4>>}

\* the same positions as clientX / clientY of an event
ClientPoints == {<<p[1] + CanvasRect.left, p[2] + CanvasRect.top>> : p \in Points}

NullId == "null"

\* renderedNodes of one layout pass: an inner node and two leaves
Scene ==
  << [id |-> "root", x |-> 0, y |-> 0, radius |-> 2],
     [id |-> "a",    x |-> 3, y |-> 0, radius |-> 1],
     [id |-> "b",    x |-> 4, y |-> 5, radius |-> 1] >>

LeafIds == {"a", "b"}

----------------------------------------------------------------------------
(* Hit-testing engine (drawNode.js / voronoiHover.js) *)

Sq(a) == RMul(a, a)

\* squared distance from the rational point (x, y) to an integer centre
Dist2(x, y, cx, cy) == RAdd(Sq(RSub(x, I(cx))), Sq(RSub(y, I(cy))))

\* exact point-in-circle hit; the last node in draw order wins
findHoveredNode(x, y, nodes) ==
  LET hits == {i \in 1..Len(nodes) :
                 RLe(Dist2(x, y, nodes[i].x, nodes[i].y), I(nodes[i].radius * nodes[i].radius))}
  IN  IF hits = {} THEN NullId
      ELSE nodes[CHOOSE i \in hits : \A j \in hits : j <= i].id

\* a proximity index that is built from one leaf on
buildLeafVoronoiFromOne(nodes, leaves) ==
  LET isLeaf(n) == n.id \in leaves
      found == SelectSeq(nodes, isLeaf)
  IN  IF Len(found) < 1 THEN <<>>
      ELSE [i \in 1..Len(found) |->
              [x |-> found[i].x, y |-> found[i].y,
               radius |-> found[i].radius, nodeId |-> found[i].id]]

\* the proximity index: the leaf entries, or <<>> (null) with fewer than two
buildLeafVoronoi(nodes, leaves) ==
  LET isLeaf(n) == n.id \in leaves
      found == SelectSeq(nodes, isLeaf)
  IN  IF Len(found) < 2 THEN <<>>
      ELSE [i \in 1..Len(found) |->
              [x |-> found[i].x, y |-> found[i].y,
               radius |-> found[i].radius, nodeId |-> found[i].id]]

\* buildLeafVoronoi with its null checks: an argument is <<>> for null and
\* <<v>> for the value v
buildLeafVoronoiOrNull(renderedNodes, leafNodes) ==
  IF renderedNodes = <<>> \/ leafNodes = <<>> THEN <<>>
  ELSE buildLeafVoronoi(renderedNodes[1], leafNodes[1])

\* a proximity hit that takes the first leaf entry within radius + tolerance
findHoveredLeafAnyWithin(x, y, voronoiData, tolerance) ==
  IF voronoiData = <<>> THEN NullId
  ELSE LET d2(i) == Dist2(x, y, voronoiData[i].x, voronoiData[i].y)
           reach(i) == voronoiData[i].radius + tolerance
           within == {i \in 1..Len(voronoiData) : RLe(d2(i), I(reach(i) * reach(i)))}
       IN  IF within = {} THEN NullId
           ELSE voronoiData[CHOOSE i \in within : \A j \in within : i <= j].nodeId

\* nearest leaf entry, accepted only within radius + tolerance
findHoveredLeafByVoronoi(x, y, voronoiData, tolerance) ==
  IF voronoiData = <<>> THEN NullId
  ELSE LET d2(i) == Dist2(x, y, voronoiData[i].x, voronoiData[i].y)
           near == {i \in 1..Len(voronoiData) :
                      \A j \in 1..Len(voronoiData) : RLe(d2(i), d2(j))}
           idx  == CHOOSE i \in near : \A j \in near : i <= j
           leaf == voronoiData[idx]
           reach == leaf.radius + tolerance
       IN  IF RLe(d2(idx), I(reach * reach)) THEN leaf.nodeId ELSE NullId

----------------------------------------------------------------------------
(* Program constants of mouseHandlers.js *)

TapThresholdSq == 25
DefaultLeafHoverTolerance == 15
WheelZoomOut == <<9, 10>>
WheelZoomIn == <<11, 10>>

----------------------------------------------------------------------------
(* Shared helpers of the handlers.  Each returns the state it leaves and   *)
(* the number of scheduleRender() calls it made.                           *)

getEventCoordinates(event) ==
  [x |-> event[1] - CanvasRect.left, y |-> event[2] - CanvasRect.top]

\* a mutation of handlePanning: the delta is assigned to the pan, not added
handlePanningAssign(st, currentX, currentY) ==
  IF ~st.isDragging \/ ~st.pannable
  THEN [state |-> st, renders |-> 0]
  ELSE LET deltaX == currentX - st.lastMouseX
           deltaY == currentY - st.lastMouseY
       IN  [state |-> [st EXCEPT !.panX = I(deltaX),
                                 !.panY = I(deltaY),
                                 !.lastMouseX = currentX,
                                 !.lastMouseY = currentY],
            renders |-> 1]

handlePanning(st, currentX, currentY) ==
  IF ~st.isDragging \/ ~st.pannable
  THEN [state |-> st, renders |-> 0]
  ELSE LET deltaX == currentX - st.lastMouseX
           deltaY == currentY - st.lastMouseY
       IN  [state |-> [st EXCEPT !.panX = RAdd(@, I(deltaX)),
                                 !.panY = RAdd(@, I(deltaY)),
                                 !.lastMouseX = currentX,
                                 !.lastMouseY = currentY],
            renders |-> 1]

\* a mutation of zoomOutOfBounds: a zoom attempt past a limit is never rejected
zoomOutOfBoundsNever(st, proposedZoom) == FALSE

\* the proposed zoom lies past a limit that the current zoom has already reached
zoomOutOfBounds(st, proposedZoom) ==
  \/ RLt(st.maxZoomLimit, proposedZoom) /\ RLe(st.maxZoomLimit, st.currentZoom)
  \/ RLt(proposedZoom, st.minZoomLimit) /\ RLe(st.currentZoom, st.minZoomLimit)

\* a mutation of clampZoom: the proposed zoom is taken as it is
clampZoomNone(st, proposedZoom) == proposedZoom

clampZoom(st, proposedZoom) ==
  RMax(st.minZoomLimit, RMin(st.maxZoomLimit, proposedZoom))

\* a mutation of zoomToPoint: the world point is taken relative to the canvas
\* origin, the new pan relative to the canvas centre
zoomToPointOffCentre(st, newZoom, centerX, centerY, width, height) ==
  LET canvasCenterX == Rat(width, 2)
      canvasCenterY == Rat(height, 2)
      worldX == RDiv(RSub(centerX, st.panX), st.currentZoom)
      worldY == RDiv(RSub(centerY, st.panY), st.currentZoom)
  IN  [st EXCEPT
         !.panX = RSub(RSub(centerX, canvasCenterX), RMul(worldX, newZoom)),
         !.panY = RSub(RSub(centerY, canvasCenterY), RMul(worldY, newZoom)),
         !.currentZoom = newZoom]

\* keep the world point under (centerX, centerY) fixed while the zoom changes
zoomToPoint(st, newZoom, centerX, centerY, width, height) ==
  LET canvasCenterX == Rat(width, 2)
      canvasCenterY == Rat(height, 2)
      worldX == RDiv(RSub(RSub(centerX, canvasCenterX), st.panX), st.currentZoom)
      worldY == RDiv(RSub(RSub(centerY, canvasCenterY), st.panY), st.currentZoom)
  IN  [st EXCEPT
         !.panX = RSub(RSub(centerX, canvasCenterX), RMul(worldX, newZoom)),
         !.panY = RSub(RSub(centerY, canvasCenterY), RMul(worldY, newZoom)),
         !.currentZoom = newZoom]

\* a zoom that does not look at the zoomable option
handleZoomAlways(st, zoomFactor, centerX, centerY, width, height) ==
  LET proposedZoom == RMul(st.currentZoom, zoomFactor) IN
  IF zoomOutOfBounds(st, proposedZoom)
  THEN [state |-> st, renders |-> 0, applied |-> FALSE]
  ELSE
    LET newZoom == clampZoom(st, proposedZoom)
    IN  [state |-> zoomToPoint(st, newZoom, centerX, centerY, width, height),
         renders |-> 1, applied |-> TRUE]

handleZoom(st, zoomFactor, centerX, centerY, width, height) ==
  IF ~st.zoomable
  THEN [state |-> st, renders |-> 0, applied |-> FALSE]
  ELSE
    LET proposedZoom == RMul(st.currentZoom, zoomFactor) IN
    IF zoomOutOfBounds(st, proposedZoom)
    THEN [state |-> st, renders |-> 0, applied |-> FALSE]
    ELSE
      LET newZoom == clampZoom(st, proposedZoom)
      IN  [state |-> zoomToPoint(st, newZoom, centerX, centerY, width, height),
           renders |-> 1, applied |-> TRUE]

\* a mutation of resolveHover: the proximity hit is consulted first
resolveHoverProximityFirst(st, x, y) ==
  LET transformedX == RSub(I(x), st.panX)
      transformedY == RSub(I(y), st.panY)
      approx == IF st.voronoiData # <<>>
                THEN findHoveredLeafByVoronoi(
                       transformedX, transformedY, st.voronoiData,
                       IF st.leafHoverTolerance = <<>> THEN DefaultLeafHoverTolerance
                       ELSE st.leafHoverTolerance[1])
                ELSE NullId
  IN  IF approx = NullId
      THEN findHoveredNode(transformedX, transformedY, st.renderedNodes)
      ELSE approx

\* the node the hover logic resolves at canvas position (x, y)
resolveHover(st, x, y) ==
  LET transformedX == RSub(I(x), st.panX)
      transformedY == RSub(I(y), st.panY)
      exact == findHoveredNode(transformedX, transformedY, st.renderedNodes)
  IN  IF exact = NullId /\ st.voronoiData # <<>>
      THEN findHoveredLeafByVoronoi(
             transformedX, transformedY, st.voronoiData,
             IF st.leafHoverTolerance = <<>> THEN DefaultLeafHoverTolerance
             ELSE st.leafHoverTolerance[1])
      ELSE exact

handleHoverDetection(st, x, y) ==
  IF Len(st.renderedNodes) = 0
  THEN [state |-> st, renders |-> 0]
  ELSE LET newHoveredNodeId == resolveHover(st, x, y)
       IN  IF newHoveredNodeId # st.hoveredNodeId
           THEN [state |-> [st EXCEPT !.hoveredNodeId = newHoveredNodeId], renders |-> 1]
           ELSE [state |-> st, renders |-> 0]

----------------------------------------------------------------------------
(* The event handlers.  Each maps the state and the event to the outcome   *)
(* of the whole handler: the state it leaves, the scheduleRender() calls,  *)
(* the onNodeClick calls, and whether it threw.  state.canvas is TRUE when *)
(* the canvas element is bound; getEventCoordinates on a missing canvas    *)
(* throws a TypeError (canvas.getBoundingClientRect of null).              *)

Returns(st, n, ids) == [state |-> st, renders |-> n, clicks |-> ids, threw |-> FALSE]
Throws(st, n)       == [state |-> st, renders |-> n, clicks |-> <<>>, threw |-> TRUE]

PointerDistance(a, b) == Sqrt((b.x - a.x) * (b.x - a.x) + (b.y - a.y) * (b.y - a.y))

handleMouseMove(st, event) ==
  IF ~st.canvas THEN Returns(st, 0, <<>>)
  ELSE
    LET coords == getEventCoordinates(event)
        pan == handlePanning(st, coords.x, coords.y)
        s1  == [pan.state EXCEPT !.lastMouseX = coords.x, !.lastMouseY = coords.y]
    IN  IF ~s1.isDragging
        THEN LET hov == handleHoverDetection(s1, coords.x, coords.y)
             IN  Returns(hov.state, pan.renders + hov.renders, <<>>)
        ELSE Returns(s1, pan.renders, <<>>)

\* a mouse down that arms dragging whether or not panning is enabled
handleMouseDownAlwaysArms(st, event) ==
  IF ~st.canvas THEN Throws(st, 0)
  ELSE
    LET coords == getEventCoordinates(event)
    IN  Returns([st EXCEPT !.mouseDown = <<coords.x, coords.y>>,
                           !.isDragging = TRUE,
                           !.lastMouseX = coords.x,
                           !.lastMouseY = coords.y], 0, <<>>)

\* a mouse down that also resolves the hover under the pointer
handleMouseDownHovers(st, event) ==
  IF ~st.canvas THEN Throws(st, 0)
  ELSE
    LET coords == getEventCoordinates(event)
        s1 == [st EXCEPT !.mouseDown = <<coords.x, coords.y>>]
        hov == handleHoverDetection(s1, coords.x, coords.y)
    IN  IF ~s1.pannable THEN Returns(hov.state, hov.renders, <<>>)
        ELSE Returns([hov.state EXCEPT !.isDragging = TRUE,
                                       !.lastMouseX = coords.x,
                                       !.lastMouseY = coords.y], hov.renders, <<>>)

handleMouseDown(st, event) ==
  IF ~st.canvas THEN Throws(st, 0)
  ELSE
    LET coords == getEventCoordinates(event)
        s1 == [st EXCEPT !.mouseDown = <<coords.x, coords.y>>]
    IN  IF ~s1.pannable THEN Returns(s1, 0, <<>>)
        ELSE Returns([s1 EXCEPT !.isDragging = TRUE,
                                !.lastMouseX = coords.x,
                                !.lastMouseY = coords.y], 0, <<>>)

\* a click test that hit-tests the pointer position without the pan offset
clickTargetUntransformed(st, coords, down) ==
  LET dx == coords.x - down[1]
      dy == coords.y - down[2]
  IN  IF dx * dx + dy * dy < TapThresholdSq
      THEN findHoveredNode(I(coords.x), I(coords.y), st.renderedNodes)
      ELSE NullId

\* a mutation of clickTarget: a displacement of exactly the threshold is a tap
clickTargetInclusive(st, coords, down) ==
  LET dx == coords.x - down[1]
      dy == coords.y - down[2]
  IN  IF dx * dx + dy * dy <= TapThresholdSq
      THEN findHoveredNode(RSub(I(coords.x), st.panX), RSub(I(coords.y), st.panY),
                           st.renderedNodes)
      ELSE NullId

\* the tap / click test shared in shape by mouse up and touch end
clickTarget(st, coords, down) ==
  LET dx == coords.x - down[1]
      dy == coords.y - down[2]
  IN  IF dx * dx + dy * dy < TapThresholdSq
      THEN findHoveredNode(RSub(I(coords.x), st.panX), RSub(I(coords.y), st.panY),
                           st.renderedNodes)
      ELSE NullId

\* a mouse up that leaves the dragging flag as it is
handleMouseUpStillDragging(st, event) ==
  IF st.mouseDown # <<>> /\ st.canvas /\ st.onNodeClick
  THEN LET clickedNodeId == clickTarget(st, getEventCoordinates(event), st.mouseDown)
       IN  Returns(st, 0, IF clickedNodeId # NullId THEN <<clickedNodeId>> ELSE <<>>)
  ELSE Returns(st, 0, <<>>)

handleMouseUp(st, event) ==
  LET s1 == [st EXCEPT !.isDragging = FALSE] IN
  IF s1.mouseDown # <<>> /\ s1.canvas /\ s1.onNodeClick
  THEN LET clickedNodeId == clickTarget(s1, getEventCoordinates(event), s1.mouseDown)
       IN  Returns(s1, 0, IF clickedNodeId # NullId THEN <<clickedNodeId>> ELSE <<>>)
  ELSE Returns(s1, 0, <<>>)

handleMouseLeave(st) ==
  LET s1 == [st EXCEPT !.isDragging = FALSE] IN
  IF s1.hoveredNodeId # NullId
  THEN Returns([s1 EXCEPT !.hoveredNodeId = NullId], 1, <<>>)
  ELSE Returns(s1, 0, <<>>)

handleWheel(st, event, deltaY) ==
  IF ~st.canvas THEN Returns(st, 0, <<>>)
  ELSE
    LET coords == getEventCoordinates(event)
        zoomFactor == IF deltaY > 0 THEN WheelZoomOut ELSE WheelZoomIn
        z == handleZoom(st, zoomFactor, I(coords.x), I(coords.y),
                        CanvasSize.width, CanvasSize.height)
    IN  Returns(z.state, z.renders, <<>>)

handleTouchStart(st, touches) ==
  LET s1 == [st EXCEPT !.touches = touches] IN
  IF Len(touches) = 1 THEN
    IF ~s1.canvas THEN Throws(s1, 0)
    ELSE
      LET coords == getEventCoordinates(touches[1])
          s2 == [s1 EXCEPT !.touchStart = <<coords.x, coords.y>>]
          s3 == IF s2.pannable
                THEN [s2 EXCEPT !.isDragging = TRUE,
                                !.lastMouseX = coords.x,
                                !.lastMouseY = coords.y]
                ELSE s2
          hov == handleHoverDetection(s3, coords.x, coords.y)
      IN  Returns(hov.state, hov.renders, <<>>)
  ELSE IF Len(touches) = 2 /\ s1.zoomable THEN
    IF ~s1.canvas THEN Throws(s1, 0)
    ELSE
      LET touch1 == getEventCoordinates(touches[1])
          touch2 == getEventCoordinates(touches[2])
      IN  Returns([s1 EXCEPT !.lastTouchDistance = PointerDistance(touch1, touch2)],
                  0, <<>>)
  ELSE Returns(s1, 0, <<>>)

\* a touch move that pans with the first touch however many touches there are
handleTouchMoveAlwaysPans(st, touches) ==
  IF Len(touches) >= 1 /\ st.isDragging /\ st.pannable THEN
    IF ~st.canvas THEN Throws(st, 0)
    ELSE
      LET coords == getEventCoordinates(touches[1])
          pan == handlePanning(st, coords.x, coords.y)
      IN  Returns(pan.state, pan.renders, <<>>)
  ELSE IF Len(touches) = 2 /\ st.zoomable THEN
    IF ~st.canvas THEN Throws(st, 0)
    ELSE
      LET touch1 == getEventCoordinates(touches[1])
          touch2 == getEventCoordinates(touches[2])
          currentDistance == PointerDistance(touch1, touch2)
          z == IF st.lastTouchDistance > 0
               THEN handleZoom(st, Rat(currentDistance, st.lastTouchDistance),
                               Rat(touch1.x + touch2.x, 2), Rat(touch1.y + touch2.y, 2),
                               CanvasSize.width, CanvasSize.height)
               ELSE [state |-> st, renders |-> 0, applied |-> FALSE]
      IN  Returns([z.state EXCEPT !.lastTouchDistance = currentDistance],
                  z.renders, <<>>)
  ELSE Returns(st, 0, <<>>)

handleTouchMove(st, touches) ==
  IF Len(touches) = 1 /\ st.isDragging /\ st.pannable THEN
    IF ~st.canvas THEN Throws(st, 0)
    ELSE
      LET coords == getEventCoordinates(touches[1])
          pan == handlePanning(st, coords.x, coords.y)
      IN  Returns(pan.state, pan.renders, <<>>)
  ELSE IF Len(touches) = 2 /\ st.zoomable THEN
    IF ~st.canvas THEN Throws(st, 0)
    ELSE
      LET touch1 == getEventCoordinates(touches[1])
          touch2 == getEventCoordinates(touches[2])
          currentDistance == PointerDistance(touch1, touch2)
          z == IF st.lastTouchDistance > 0
               THEN handleZoom(st, Rat(currentDistance, st.lastTouchDistance),
                               Rat(touch1.x + touch2.x, 2), Rat(touch1.y + touch2.y, 2),
                               CanvasSize.width, CanvasSize.height)
               ELSE [state |-> st, renders |-> 0, applied |-> FALSE]
      IN  Returns([z.state EXCEPT !.lastTouchDistance = currentDistance],
                  z.renders, <<>>)
  ELSE Returns(st, 0, <<>>)

\* a touch end that arms dragging without recording where the remaining
\* touch is
handleTouchEndStaleAnchor(st, touches, changedTouches) ==
  LET s1 == [st EXCEPT !.touches = touches] IN
  IF Len(touches) = 0 THEN
    LET s2 == [s1 EXCEPT !.isDragging = FALSE, !.lastTouchDistance = 0] IN
    IF Len(changedTouches) = 1 /\ s2.touchStart # <<>> /\ s2.onNodeClick
    THEN
      IF ~s2.canvas THEN Throws(s2, 0)
      ELSE
        LET tappedNodeId ==
              clickTarget(s2, getEventCoordinates(changedTouches[1]), s2.touchStart)
        IN  Returns(s2, 0, IF tappedNodeId # NullId THEN <<tappedNodeId>> ELSE <<>>)
    ELSE Returns(s2, 0, <<>>)
  ELSE IF Len(touches) = 1 THEN
    LET s2 == [s1 EXCEPT !.lastTouchDistance = 0] IN
    IF s2.pannable
    THEN
      IF ~s2.canvas THEN Throws(s2, 0)
      ELSE Returns([s2 EXCEPT !.isDragging = TRUE], 0, <<>>)
    ELSE Returns(s2, 0, <<>>)
  ELSE Returns(s1, 0, <<>>)

handleTouchEnd(st, touches, changedTouches) ==
  LET s1 == [st EXCEPT !.touches = touches] IN
  IF Len(touches) = 0 THEN
    LET s2 == [s1 EXCEPT !.isDragging = FALSE, !.lastTouchDistance = 0] IN
    IF Len(changedTouches) = 1 /\ s2.touchStart # <<>> /\ s2.onNodeClick
    THEN
      IF ~s2.canvas THEN Throws(s2, 0)
      ELSE
        LET tappedNodeId ==
              clickTarget(s2, getEventCoordinates(changedTouches[1]), s2.touchStart)
        IN  Returns(s2, 0, IF tappedNodeId # NullId THEN <<tappedNodeId>> ELSE <<>>)
    ELSE Returns(s2, 0, <<>>)
  ELSE IF Len(touches) = 1 THEN
    LET s2 == [s1 EXCEPT !.lastTouchDistance = 0] IN
    IF s2.pannable
    THEN
      IF ~s2.canvas THEN Throws(s2, 0)
      ELSE
        LET coords == getEventCoordinates(touches[1])
        IN  Returns([s2 EXCEPT !.lastMouseX = coords.x,
                               !.lastMouseY = coords.y,
                               !.isDragging = TRUE], 0, <<>>)
    ELSE Returns(s2, 0, <<>>)
  ELSE Returns(s1, 0, <<>>)

----------------------------------------------------------------------------
(* Initial states: the component right after createMouseHandlers *)

\* the options and layout the host component hands over
Defaults ==
  [canvas |-> TRUE, pannable |-> TRUE, zoomable |-> TRUE, onNodeClick |-> TRUE,
   renderedNodes |-> Scene, leaves |-> LeafIds, leafHoverTolerance |-> <<1>>]

Configs ==
  { Defaults,
    [Defaults EXCEPT !.canvas = FALSE],
    [Defaults EXCEPT !.pannable = FALSE],
    [Defaults EXCEPT !.zoomable = FALSE],
    [Defaults EXCEPT !.onNodeClick = FALSE],
    [Defaults EXCEPT !.renderedNodes = <<>>],
    [Defaults EXCEPT !.leaves = {"a"}],
    [Defaults EXCEPT !.leafHoverTolerance = <<>>] }

\* (minZoomLimit, maxZoomLimit, currentZoom) with 0 < min <= current <= max
ZoomInits ==
  { [min |-> <<1, 1>>, max |-> <<6, 5>>, cur |-> <<1, 1>>],
    [min |-> <<1, 2>>, max |-> <<6, 5>>, cur |-> <<1, 1>>] }

InitialState(c, z) ==
  [canvas |-> c.canvas, pannable |-> c.pannable, zoomable |-> c.zoomable,
   onNodeClick |-> c.onNodeClick,
   renderedNodes |-> c.renderedNodes,
   leafNodes |-> c.leaves,
   voronoiData |-> buildLeafVoronoi(c.renderedNodes, c.leaves),
   leafHoverTolerance |-> c.leafHoverTolerance,
   minZoomLimit |-> z.min, maxZoomLimit |-> z.max, currentZoom |-> z.cur,
   panX |-> I(0), panY |-> I(0),
   isDragging |-> FALSE, lastMouseX |-> 0, lastMouseY |-> 0,
   mouseDown |-> <<>>, touchStart |-> <<>>,
   touches |-> <<>>, lastTouchDistance |-> 0,
   hoveredNodeId |-> NullId]

\* no library function has been called
NoCall == [fn |-> "none"]

\* the canvas elements of the page; NoCanvas is a missing canvas (null)
CanvasRefs == {"A", "B", "G"}

NoCanvas == "null"

NoContext == "null"

\* what canvas.getContext('2d') returns: a canvas hands out the same context on
\* every call; canvas G is bound to another context type and hands out none
getContext == [canvas \in CanvasRefs |->
                 CASE canvas = "A" -> "ctxA"
                   [] canvas = "B" -> "ctxB"
                   [] OTHER -> NoContext]

\* the drawing state of a context whose bitmap was just allocated
DefaultContext ==
  [scale |-> 1,
   imageSmoothingEnabled |-> TRUE,
   imageSmoothingQuality |-> "low",
   lineCap |-> "butt",
   lineJoin |-> "miter"]

\* a canvas element as the page creates it; allocations counts the bitmaps
\* allocated for it by assignments to its width and height
NewCanvas ==
  [width |-> 300,
   height |-> 150,
   style |-> [width |-> <<>>, height |-> <<>>],
   context |-> DefaultContext,
   allocations |-> 0]

\* nothing cached: no key, no result
EmptyCache == <<>>

\* canvasUtils.js right after import, on a page that has drawn nothing
Imported ==
  /\ window = [devicePixelRatio |-> 1]
  /\ canvases = [canvas \in CanvasRefs |-> NewCanvas]
  /\ setupCache = [_lastCanvasRef |-> NoCanvas,
                   _lastWidth |-> -1,
                   _lastHeight |-> -1,
                   _lastDpr |-> -1,
                   _cachedCtx |-> NoContext]
  /\ _colorAlphaCache = EmptyCache

\* the component before its first event, in a run of n events
Mounted(n) ==
  /\ \E c \in Configs, z \in ZoomInits : state = InitialState(c, z)
  /\ fingers = <<>>
  /\ rendered = 0
  /\ clicked = <<>>
  /\ threw = FALSE
  /\ last = [kind |-> "init", at |-> <<>>]
  /\ multiTouch = FALSE
  /\ dragFrom = <<>>
  /\ steps = 0
  /\ limit = n
  /\ input = <<>>
  /\ output = NoCall
  /\ Imported

Init == Mounted(MaxSteps)

----------------------------------------------------------------------------
(* Actions: one per DOM event delivered to the component *)

\* at most this many fingers are on the surface at once
FingerSlots == {1, 2, 3}

\* the numbers of st are within the range the model computes with
Representable(st) ==
  /\ st.panX[2] <= MaxDenominator
  /\ st.panY[2] <= MaxDenominator
  /\ st.currentZoom[2] <= MaxDenominator

\* canvas position of a client position
Local(p) == <<p[1] - CanvasRect.left, p[2] - CanvasRect.top>>

Deliver(out, kind, at) ==
  /\ steps < limit
  /\ \E o \in {out} :
       /\ Representable(o.state)
       /\ state' = o.state
       /\ rendered' = o.renders
       /\ clicked' = o.clicks
       /\ threw' = o.threw
  /\ last' = [kind |-> kind, at |-> at]
  /\ steps' = steps + 1
  /\ UNCHANGED <<limit, input, output, window, canvases, setupCache,
                 _colorAlphaCache>>

\* the sequence s without the positions in gone
Without(s, gone) ==
  LET keep == {i \in 1..Len(s) : i \notin gone}
      rank(i) == Cardinality({j \in keep : j <= i})
  IN  [k \in 1..Cardinality(keep) |-> s[CHOOSE i \in keep : rank(i) = k]]

\* the positions in gone, in order
Only(s, gone) == Without(s, (1..Len(s)) \ gone)

\* the drag that a pointer down starts, if it armed dragging
DragStart(device, p) ==
  IF state'.isDragging /\ ~threw'
  THEN <<device, state.panX, state.panY, Local(p)[1], Local(p)[2]>>
  ELSE <<>>

\* a move of the same device continues the drag, any other event ends it
DragContinues(device) ==
  IF dragFrom # <<>> /\ dragFrom[1] = device THEN dragFrom ELSE <<>>

MouseMove(p) ==
  /\ Deliver(handleMouseMove(state, p), "mousemove", Local(p))
  /\ dragFrom' = DragContinues("mouse")
  /\ UNCHANGED <<fingers, multiTouch>>

MouseDown(p) ==
  /\ Deliver(handleMouseDown(state, p), "mousedown", Local(p))
  /\ dragFrom' = DragStart("mouse", p)
  /\ UNCHANGED <<fingers, multiTouch>>

MouseUp(p) ==
  /\ Deliver(handleMouseUp(state, p), "mouseup", Local(p))
  /\ dragFrom' = <<>>
  /\ UNCHANGED <<fingers, multiTouch>>

MouseLeave ==
  /\ Deliver(handleMouseLeave(state), "mouseleave", <<>>)
  /\ dragFrom' = <<>>
  /\ UNCHANGED <<fingers, multiTouch>>

Wheel(p, deltaY) ==
  /\ Deliver(handleWheel(state, p, deltaY), "wheel", Local(p))
  /\ dragFrom' = <<>>
  /\ UNCHANGED <<fingers, multiTouch>>

TouchStart(p) ==
  /\ Len(fingers) + 1 \in FingerSlots
  /\ fingers' = Append(fingers, p)
  /\ multiTouch' = (Len(fingers') >= 2)
  /\ Deliver(handleTouchStart(state, fingers'), "touchstart", Local(p))
  /\ dragFrom' = IF Len(fingers') = 1 THEN DragStart("touch", p) ELSE <<>>

TouchMove(i, p) ==
  /\ i \in 1..Len(fingers)
  /\ fingers' = [fingers EXCEPT ![i] = p]
  /\ dragFrom' = DragContinues("touch")
  /\ UNCHANGED multiTouch
  /\ Deliver(handleTouchMove(state, fingers'), "touchmove", Local(p))

TouchEnd(gone) ==
  /\ gone # {}
  /\ gone \subseteq 1..Len(fingers)
  /\ fingers' = Without(fingers, gone)
  /\ multiTouch' = (multiTouch /\ fingers' # <<>>)
  /\ dragFrom' = <<>>
  /\ Deliver(handleTouchEnd(state, fingers', Only(fingers, gone)), "touchend",
             Local(fingers[CHOOSE i \in gone : \A j \in gone : i <= j]))

Next ==
  \/ \E p \in ClientPoints : MouseMove(p)
  \/ \E p \in ClientPoints : MouseDown(p)
  \/ \E p \in ClientPoints : MouseUp(p)
  \/ MouseLeave
  \/ \E p \in ClientPoints, deltaY \in {-1, 1} : Wheel(p, deltaY)
  \/ \E p \in ClientPoints : TouchStart(p)
  \/ \E i \in FingerSlots, p \in ClientPoints : TouchMove(i, p)
  \/ \E gone \in SUBSET FingerSlots : TouchEnd(gone)

Spec == Init /\ [][Next]_vars

\* runs of touch events only, on a touch screen
TouchInit == Mounted(MaxTouchSteps)

TouchNext ==
  \/ \E p \in ClientPoints : TouchStart(p)
  \/ \E i \in FingerSlots, p \in ClientPoints : TouchMove(i, p)
  \/ \E gone \in SUBSET FingerSlots : TouchEnd(gone)

SpecTouch == TouchInit /\ [][TouchNext]_vars

----------------------------------------------------------------------------
(* collapseAnimation.js: descendants and collapsed positions *)

\* the id of an entry of a children array
childId(child) == IF "node" \in DOMAIN child THEN child.node.id ELSE child.id

\* a traversal that reports the children of the node and stops there
getDescendantsDirect(stack, descendants, parentToChildrenNodeMap) ==
  IF Len(stack) = 0 \/ stack[Len(stack)] \notin DOMAIN parentToChildrenNodeMap
  THEN descendants
  ELSE LET children == parentToChildrenNodeMap[stack[Len(stack)]]
       IN  descendants \o [i \in 1..Len(children) |-> childId(children[i])]

\* the while loop of getDescendantIds: pop an id, push and report its children
RECURSIVE getDescendantsLoop(_, _, _)
getDescendantsLoop(stack, descendants, parentToChildrenNodeMap) ==
  IF Len(stack) = 0 THEN descendants
  ELSE
    LET currentId == stack[Len(stack)]
        popped == SubSeq(stack, 1, Len(stack) - 1)
    IN  IF currentId \notin DOMAIN parentToChildrenNodeMap
        THEN getDescendantsLoop(popped, descendants, parentToChildrenNodeMap)
        ELSE
          LET children == parentToChildrenNodeMap[currentId]
              ids == [i \in 1..Len(children) |-> childId(children[i])]
          IN  getDescendantsLoop(popped \o ids, descendants \o ids,
                                 parentToChildrenNodeMap)

\* descendants that start with the node itself
getDescendantIdsWithSelf(nodeId, parentToChildrenNodeMap) ==
  getDescendantsLoop(<<nodeId>>, <<nodeId>>, parentToChildrenNodeMap)

getDescendantIds(nodeId, parentToChildrenNodeMap) ==
  getDescendantsLoop(<<nodeId>>, <<>>, parentToChildrenNodeMap)

\* Map.set for every id of ids
RECURSIVE setAll(_, _, _)
setAll(overrides, ids, value) ==
  IF ids = <<>> THEN overrides
  ELSE setAll([k \in DOMAIN overrides \cup {Head(ids)} |->
                 IF k = Head(ids) THEN value ELSE overrides[k]],
              Tail(ids), value)

\* an override loop that writes the anchor with x and y exchanged
RECURSIVE collapseLoopSwapsAxes(_, _, _, _)
collapseLoopSwapsAxes(overrides, collapsedNodeIds, parentToChildrenNodeMap, nodeIdToRenderedNodeMap) ==
  IF collapsedNodeIds = <<>> THEN overrides
  ELSE
    LET collapsedId == Head(collapsedNodeIds)
    IN  IF collapsedId \notin DOMAIN nodeIdToRenderedNodeMap
        THEN collapseLoopSwapsAxes(overrides, Tail(collapsedNodeIds),
                                   parentToChildrenNodeMap, nodeIdToRenderedNodeMap)
        ELSE
          LET anchorNode == nodeIdToRenderedNodeMap[collapsedId]
              descendantIds == getDescendantIds(collapsedId, parentToChildrenNodeMap)
          IN  collapseLoopSwapsAxes(setAll(overrides, descendantIds,
                                           [x |-> anchorNode.y, y |-> anchorNode.x]),
                                    Tail(collapsedNodeIds), parentToChildrenNodeMap,
                                    nodeIdToRenderedNodeMap)

\* an override loop in which an id keeps the first anchor it was given
RECURSIVE collapseLoopFirstWins(_, _, _, _)
collapseLoopFirstWins(overrides, collapsedNodeIds, parentToChildrenNodeMap, nodeIdToRenderedNodeMap) ==
  IF collapsedNodeIds = <<>> THEN overrides
  ELSE
    LET collapsedId == Head(collapsedNodeIds)
        later == collapseLoopFirstWins(overrides, Tail(collapsedNodeIds),
                                       parentToChildrenNodeMap,
                                       nodeIdToRenderedNodeMap)
    IN  IF collapsedId \notin DOMAIN nodeIdToRenderedNodeMap THEN later
        ELSE
          LET anchorNode == nodeIdToRenderedNodeMap[collapsedId]
          IN  setAll(later, getDescendantIds(collapsedId, parentToChildrenNodeMap),
                     [x |-> anchorNode.x, y |-> anchorNode.y])

\* an override loop that gives up at the first collapsed id without a
\* rendered position
RECURSIVE collapseLoopStopsAtUnpositioned(_, _, _, _)
collapseLoopStopsAtUnpositioned(overrides, collapsedNodeIds, parentToChildrenNodeMap, nodeIdToRenderedNodeMap) ==
  IF collapsedNodeIds = <<>> THEN overrides
  ELSE
    LET collapsedId == Head(collapsedNodeIds)
    IN  IF collapsedId \notin DOMAIN nodeIdToRenderedNodeMap THEN overrides
        ELSE
          LET anchorNode == nodeIdToRenderedNodeMap[collapsedId]
              descendantIds == getDescendantIds(collapsedId, parentToChildrenNodeMap)
          IN  collapseLoopStopsAtUnpositioned(
                setAll(overrides, descendantIds,
                       [x |-> anchorNode.x, y |-> anchorNode.y]),
                Tail(collapsedNodeIds), parentToChildrenNodeMap,
                nodeIdToRenderedNodeMap)

\* the for loop of computeCollapsedPositions over the collapsed set, in its
\* iteration order
RECURSIVE collapseLoop(_, _, _, _)
collapseLoop(overrides, collapsedNodeIds, parentToChildrenNodeMap, nodeIdToRenderedNodeMap) ==
  IF collapsedNodeIds = <<>> THEN overrides
  ELSE
    LET collapsedId == Head(collapsedNodeIds)
    IN  IF collapsedId \notin DOMAIN nodeIdToRenderedNodeMap
        THEN collapseLoop(overrides, Tail(collapsedNodeIds),
                          parentToChildrenNodeMap, nodeIdToRenderedNodeMap)
        ELSE
          LET anchorNode == nodeIdToRenderedNodeMap[collapsedId]
              descendantIds == getDescendantIds(collapsedId, parentToChildrenNodeMap)
          IN  collapseLoop(setAll(overrides, descendantIds,
                                  [x |-> anchorNode.x, y |-> anchorNode.y]),
                           Tail(collapsedNodeIds), parentToChildrenNodeMap,
                           nodeIdToRenderedNodeMap)

computeCollapsedPositions(collapsedNodeIds, parentToChildrenNodeMap, nodeIdToRenderedNodeMap) ==
  collapseLoop(<<>>, collapsedNodeIds, parentToChildrenNodeMap,
               nodeIdToRenderedNodeMap)

\* the node ids of the trees, root first
TreeIds == <<"root", "a", "b", "c", "d", "e">>

\* an id that is in no tree and has no rendered position
UnknownId == "unknown"

TreeNodes == {TreeIds[i] : i \in 1..MaxTreeNodes}

\* where the layout has rendered a node
RenderedPosition(id) ==
  CASE id = "root" -> [x |-> 100, y |-> 100]
    [] id = "a" -> [x |-> 200, y |-> 200]
    [] id = "b" -> [x |-> 300, y |-> 100]
    [] id = "c" -> [x |-> 250, y |-> 300]
    [] id = "d" -> [x |-> 150, y |-> 300]
    [] OTHER -> [x |-> 350, y |-> 300]

\* the trees on TreeNodes: every node but the root has a parent that comes
\* before it in TreeIds
ParentMaps ==
  {p \in [2..MaxTreeNodes -> 1..MaxTreeNodes] : \A i \in 2..MaxTreeNodes : p[i] < i}

\* the entry of a children array for node i, with or without the .node wrapper
ChildEntry(i, wrapped) ==
  IF wrapped THEN [id |-> TreeIds[i], node |-> [id |-> TreeIds[i]]]
  ELSE [id |-> TreeIds[i]]

\* the children of node i under parent map p, in the order of TreeIds
ChildrenOf(p, i, wrapped) ==
  LET kids == {j \in 2..MaxTreeNodes : p[j] = i}
      rank(j) == Cardinality({k \in kids : k <= j})
  IN  [n \in 1..Cardinality(kids) |->
         ChildEntry(CHOOSE j \in kids : rank(j) = n, wrapped)]

\* the parent-to-children index of parent map p; leaves are keys with an empty
\* array if leafKeys, else no keys
ChildrenIndex(p, wrapped, leafKeys) ==
  LET parents == {i \in 1..MaxTreeNodes :
                    leafKeys \/ \E j \in 2..MaxTreeNodes : p[j] = i}
  IN  [id \in {TreeIds[i] : i \in parents} |->
         ChildrenOf(p, CHOOSE i \in parents : TreeIds[i] = id, wrapped)]

\* the collapsed sets of up to two ids, in either iteration order
CollapsedSets ==
  LET ids == TreeNodes \cup {UnknownId}
  IN  {<<>>} \cup {<<i>> : i \in ids}
        \cup {pair \in ids \X ids : pair[1] # pair[2]}

\* no component is mounted
Unmounted ==
  /\ state = <<>>
  /\ fingers = <<>>
  /\ rendered = 0
  /\ clicked = <<>>
  /\ threw = FALSE
  /\ last = [kind |-> "init", at |-> <<>>]
  /\ multiTouch = FALSE
  /\ dragFrom = <<>>
  /\ steps = 0
  /\ limit = 0
  /\ Imported

Library == <<state, fingers, rendered, clicked, threw, last, multiTouch,
             dragFrom, steps, limit, input, window, canvases, setupCache,
             _colorAlphaCache>>

CollapseInit ==
  /\ Unmounted
  /\ \E p \in ParentMaps, wrapped \in BOOLEAN, leafKeys \in BOOLEAN,
        positioned \in SUBSET TreeNodes :
        input = [parentToChildrenNodeMap |-> ChildrenIndex(p, wrapped, leafKeys),
                 nodeIdToRenderedNodeMap |->
                   [id \in positioned |-> RenderedPosition(id)]]
  /\ output = NoCall

GetDescendantIds(nodeId) ==
  /\ output = NoCall
  /\ output' = [fn |-> "getDescendantIds",
                nodeId |-> nodeId,
                value |-> getDescendantIds(nodeId, input.parentToChildrenNodeMap)]
  /\ UNCHANGED Library

ComputeCollapsedPositions(collapsedNodeIds) ==
  /\ output = NoCall
  /\ output' = [fn |-> "computeCollapsedPositions",
                collapsedNodeIds |-> collapsedNodeIds,
                value |-> computeCollapsedPositions(collapsedNodeIds,
                                                    input.parentToChildrenNodeMap,
                                                    input.nodeIdToRenderedNodeMap)]
  /\ UNCHANGED Library

CollapseNext ==
  \/ \E nodeId \in TreeNodes \cup {UnknownId} : GetDescendantIds(nodeId)
  \/ \E collapsedNodeIds \in CollapsedSets :
       ComputeCollapsedPositions(collapsedNodeIds)

SpecCollapse == CollapseInit /\ [][CollapseNext]_vars

----------------------------------------------------------------------------
(* collapseAnimation.js: easing *)

\* an easing whose second half is not halved
easeInOutCubicUnhalved(t) ==
  IF RLt(t, Rat(1, 2))
  THEN RMul(I(4), RMul(t, RMul(t, t)))
  ELSE LET u == RAdd(RMul(I(-2), t), I(2))
       IN  RSub(I(1), RMul(u, RMul(u, u)))

easeInOutCubic(t) ==
  IF RLt(t, Rat(1, 2))
  THEN RMul(I(4), RMul(t, RMul(t, t)))
  ELSE LET u == RAdd(RMul(I(-2), t), I(2))
       IN  RSub(I(1), RDiv(RMul(u, RMul(u, u)), I(2)))

\* progress values: the steps of [0, 1], and the midpoint
ProgressValues == {Rat(k, EaseSteps) : k \in 0..EaseSteps} \cup {Rat(1, 2)}

EaseInit ==
  /\ Unmounted
  /\ \E t1 \in ProgressValues, t2 \in ProgressValues : input = [t1 |-> t1, t2 |-> t2]
  /\ output = NoCall

\* the easing of two progress values
EaseInOutCubic ==
  /\ output = NoCall
  /\ output' = [fn |-> "easeInOutCubic",
                value1 |-> easeInOutCubic(input.t1),
                value2 |-> easeInOutCubic(input.t2)]
  /\ UNCHANGED Library

EaseNext == EaseInOutCubic

SpecEase == EaseInit /\ [][EaseNext]_vars

----------------------------------------------------------------------------
(* voronoiHover.js and hover resolution on their own *)

\* renderedNodes with a small and a large leaf
HoverScene ==
  << [id |-> "root", x |-> 6,  y |-> 3, radius |-> 2],
     [id |-> "a",    x |-> 2,  y |-> 0, radius |-> 1],
     [id |-> "b",    x |-> 10, y |-> 0, radius |-> 5] >>

\* the arguments of buildLeafVoronoi: <<>> is null, <<v>> the value v
IndexInputs ==
  { [renderedNodes |-> <<HoverScene>>, leafNodes |-> <<{"a", "b"}>>],
    [renderedNodes |-> <<HoverScene>>, leafNodes |-> <<{"root", "a", "b"}>>],
    [renderedNodes |-> <<HoverScene>>, leafNodes |-> <<{"a"}>>],
    [renderedNodes |-> <<HoverScene>>, leafNodes |-> <<{"a", "leaf2"}>>],
    [renderedNodes |-> <<HoverScene>>, leafNodes |-> <<{}>>],
    [renderedNodes |-> <<SubSeq(HoverScene, 2, 2)>>, leafNodes |-> <<{"a"}>>],
    [renderedNodes |-> <<HoverScene>>, leafNodes |-> <<>>],
    [renderedNodes |-> <<>>, leafNodes |-> <<{"a"}>>] }

\* the points the hit tests are asked about
QueryPoints == (0..MaxCoordinate) \X {0, 3}

Tolerances == {0, 1, 2}

ProximityInit ==
  /\ Unmounted
  /\ \E args \in IndexInputs, point \in QueryPoints, tolerance \in Tolerances :
        input = [renderedNodes |-> args.renderedNodes,
                 leafNodes |-> args.leafNodes,
                 voronoiData |-> buildLeafVoronoiOrNull(args.renderedNodes,
                                                        args.leafNodes),
                 point |-> point,
                 tolerance |-> tolerance]
  /\ output = NoCall

BuildLeafVoronoi ==
  /\ output = NoCall
  /\ output' = [fn |-> "buildLeafVoronoi",
                value |-> buildLeafVoronoiOrNull(input.renderedNodes, input.leafNodes)]
  /\ UNCHANGED Library

FindHoveredLeafByVoronoi ==
  /\ output = NoCall
  /\ output' = [fn |-> "findHoveredLeafByVoronoi",
                value |-> findHoveredLeafByVoronoi(I(input.point[1]), I(input.point[2]),
                                                   input.voronoiData, input.tolerance)]
  /\ UNCHANGED Library

\* hover resolution of a component that holds the rendered nodes and the index
ResolveHover ==
  /\ output = NoCall
  /\ input.renderedNodes # <<>>
  /\ LET st == [InitialState(Defaults, CHOOSE z \in ZoomInits : TRUE) EXCEPT
                  !.renderedNodes = input.renderedNodes[1],
                  !.voronoiData = input.voronoiData,
                  !.leafHoverTolerance = <<input.tolerance>>]
     IN  output' = [fn |-> "resolveHover",
                    value |-> resolveHover(st, input.point[1], input.point[2])]
  /\ UNCHANGED Library

ProximityNext ==
  \/ BuildLeafVoronoi
  \/ FindHoveredLeafByVoronoi
  \/ ResolveHover

SpecProximity == ProximityInit /\ [][ProximityNext]_vars

----------------------------------------------------------------------------
(* canvasUtils.js: setupCanvas and its setup cache *)

\* window.devicePixelRatio || 1
effectivePixelRatio(win) ==
  IF win.devicePixelRatio = 0 THEN 1 ELSE win.devicePixelRatio

\* width + 'px'
px(n) == <<n, "px">>

\* the canvas after the assignments of lines 39-42: assigning width and height
\* allocates a new bitmap and resets the drawing state of the context
resizeCanvas(element, width, height, devicePixelRatio) ==
  [width |-> width * devicePixelRatio,
   height |-> height * devicePixelRatio,
   style |-> [width |-> px(width), height |-> px(height)],
   context |-> DefaultContext,
   allocations |-> element.allocations + 1]

\* the drawing state after lines 47-51; ctx.scale multiplies the current scale
prepareContext(context, devicePixelRatio) ==
  [scale |-> context.scale * devicePixelRatio,
   imageSmoothingEnabled |-> TRUE,
   imageSmoothingQuality |-> "high",
   lineCap |-> "round",
   lineJoin |-> "round"]

\* a cache test that does not look at the device pixel ratio
cacheHitIgnoresDpr(cache, canvas, width, height, devicePixelRatio) ==
  /\ canvas = cache._lastCanvasRef
  /\ width = cache._lastWidth
  /\ height = cache._lastHeight
  /\ cache._cachedCtx # NoContext

\* the condition of lines 28-34
cacheHit(cache, canvas, width, height, devicePixelRatio) ==
  /\ canvas = cache._lastCanvasRef
  /\ width = cache._lastWidth
  /\ height = cache._lastHeight
  /\ devicePixelRatio = cache._lastDpr
  /\ cache._cachedCtx # NoContext

\* setupCanvas(canvas, width, height) called with the module's cache, the
\* window and the page's canvases: the value returned, the cache and the
\* canvases after the call
setupCanvas(cache, win, elements, canvas, width, height) ==
  IF canvas = NoCanvas
  THEN [value |-> NoContext, cache |-> cache, canvases |-> elements]
  ELSE
    LET devicePixelRatio == effectivePixelRatio(win)
    IN  IF cacheHit(cache, canvas, width, height, devicePixelRatio)
        THEN [value |-> cache._cachedCtx, cache |-> cache, canvases |-> elements]
        ELSE
          LET resized == resizeCanvas(elements[canvas], width, height,
                                      devicePixelRatio)
              ctx == getContext[canvas]
          IN  IF ctx = NoContext
              THEN [value |-> NoContext,
                    cache |-> cache,
                    canvases |-> [elements EXCEPT ![canvas] = resized]]
              ELSE [value |-> ctx,
                    cache |-> [_lastCanvasRef |-> canvas,
                               _lastWidth |-> width,
                               _lastHeight |-> height,
                               _lastDpr |-> devicePixelRatio,
                               _cachedCtx |-> ctx],
                    canvases |->
                      [elements EXCEPT ![canvas] =
                         [resized EXCEPT !.context =
                            prepareContext(resized.context, devicePixelRatio)]]]

\* the values window.devicePixelRatio takes; 0 stands for a missing value
DevicePixelRatios == {0, 1, 2}

\* the sizes setupCanvas is asked for
CanvasSizes == {<<2, 2>>, <<3, 2>>, <<2, 3>>}

Component == <<state, fingers, rendered, clicked, threw, last, multiTouch,
               dragFrom, limit, input>>

CanvasInit ==
  /\ Unmounted
  /\ input = <<>>
  /\ output = NoCall

\* one call of setupCanvas; reallocated records whether the call assigned the
\* canvas's width and height
SetupCanvas(canvas, width, height) ==
  /\ steps < MaxSetups
  /\ LET out == setupCanvas(setupCache, window, canvases, canvas, width, height)
     IN  /\ setupCache' = out.cache
         /\ canvases' = out.canvases
         /\ output' = [fn |-> "setupCanvas",
                       canvas |-> canvas,
                       width |-> width,
                       height |-> height,
                       value |-> out.value,
                       reallocated |-> out.canvases # canvases]
  /\ steps' = steps + 1
  /\ UNCHANGED <<Component, window, _colorAlphaCache>>

\* the page moves to a screen of another pixel density
DevicePixelRatioChanges(ratio) ==
  /\ ratio # window.devicePixelRatio
  /\ window' = [devicePixelRatio |-> ratio]
  /\ UNCHANGED <<Component, steps, output, canvases, setupCache,
                 _colorAlphaCache>>

CanvasNext ==
  \/ \E canvas \in CanvasRefs \cup {NoCanvas}, size \in CanvasSizes :
       SetupCanvas(canvas, size[1], size[2])
  \/ \E ratio \in DevicePixelRatios : DevicePixelRatioChanges(ratio)

SpecCanvas == CanvasInit /\ [][CanvasNext]_vars

----------------------------------------------------------------------------
(* canvasUtils.js: colorWithAlpha and its cache *)
(* A string is the sequence of its characters.  A number alpha is given in *)
(* thousandths; undefined and null are values of their own.                *)

_COLOR_CACHE_MAX_SIZE == 256

Undefined == [type |-> "undefined"]

Null == [type |-> "null"]

Number(thousandths) == [type |-> "number", thousandths |-> thousandths]

LowerHex == <<"0", "1", "2", "3", "4", "5", "6", "7", "8", "9",
              "a", "b", "c", "d", "e", "f">>

UpperHex == <<"0", "1", "2", "3", "4", "5", "6", "7", "8", "9",
              "A", "B", "C", "D", "E", "F">>

\* the only element of a set of one element
The(set) == CHOOSE element \in set : TRUE

\* the decimal digits of a natural number
RECURSIVE decimal(_)
decimal(n) ==
  IF n < 10 THEN <<LowerHex[n + 1]>>
  ELSE decimal(n \div 10) \o <<LowerHex[(n % 10) + 1]>>

RECURSIVE dropTrailingZeros(_)
dropTrailingZeros(digits) ==
  IF digits # <<>> /\ digits[Len(digits)] = "0"
  THEN dropTrailingZeros(SubSeq(digits, 1, Len(digits) - 1))
  ELSE digits

\* `${alpha}` of a number of thousandths: 500 is 0.5, 510 is 0.51, 0 is 0
alphaText(alpha) ==
  LET whole == alpha.thousandths \div 1000
      part == alpha.thousandths % 1000
      fraction == dropTrailingZeros(<<LowerHex[(part \div 100) + 1],
                                      LowerHex[((part \div 10) % 10) + 1],
                                      LowerHex[(part % 10) + 1]>>)
  IN  IF fraction = <<>> THEN decimal(whole)
      ELSE decimal(whole) \o <<".">> \o fraction

\* String.prototype.trim on strings whose only white space is the blank
RECURSIVE trimStart(_)
trimStart(s) ==
  IF s # <<>> /\ Head(s) = " " THEN trimStart(Tail(s)) ELSE s

RECURSIVE trimEnd(_)
trimEnd(s) ==
  IF s # <<>> /\ s[Len(s)] = " " THEN trimEnd(SubSeq(s, 1, Len(s) - 1)) ELSE s

trim(s) == trimEnd(trimStart(s))

startsWith(s, prefix) ==
  /\ Len(s) >= Len(prefix)
  /\ SubSeq(s, 1, Len(prefix)) = prefix

\* s.slice(start, -dropped) for dropped >= 0, and s.slice(start) for dropped = 0
slice(s, start, dropped) ==
  IF start + 1 > Len(s) - dropped THEN <<>>
  ELSE SubSeq(s, start + 1, Len(s) - dropped)

\* s.split(separator), the part being read given in current
RECURSIVE splitFrom(_, _, _)
splitFrom(s, separator, current) ==
  IF s = <<>> THEN <<current>>
  ELSE IF Head(s) = separator
       THEN <<current>> \o splitFrom(Tail(s), separator, <<>>)
       ELSE splitFrom(Tail(s), separator, Append(current, Head(s)))

split(s, separator) == splitFrom(s, separator, <<>>)

\* the value of a hexadecimal digit as a set: empty for any other character
hexDigit(ch) == {i - 1 : i \in {j \in 1..16 : LowerHex[j] = ch \/ UpperHex[j] = ch}}

\* parseInt(s, 16) on strings without white space, sign or 0x prefix: the
\* number written by the leading hexadecimal digits, as a set of one element,
\* and the empty set for NaN
RECURSIVE parseHex(_, _)
parseHex(s, parsed) ==
  IF s = <<>> \/ hexDigit(Head(s)) = {} THEN parsed
  ELSE parseHex(Tail(s),
                {16 * (IF parsed = {} THEN 0 ELSE The(parsed))
                   + The(hexDigit(Head(s)))})

parseInt(s) == parseHex(s, {})

\* `${n}` of a value parseInt returned
numberText(parsed) ==
  IF parsed = {} THEN <<"N", "a", "N">> ELSE decimal(The(parsed))

\* `rgba(${r}, ${g}, ${b}, ${alpha})`
rgba(r, g, b, a) ==
  <<"r", "g", "b", "a", "(">> \o r \o <<",", " ">> \o g \o <<",", " ">> \o b
    \o <<",", " ">> \o a \o <<")">>

\* hex.split('').map((h) => h + h).join('')
RECURSIVE doubled(_)
doubled(hex) ==
  IF hex = <<>> THEN <<>>
  ELSE <<Head(hex), Head(hex)>> \o doubled(Tail(hex))

\* c.slice(from, -1).split(',').map((s) => s.trim()) put into the template
functional(c, from, a) ==
  LET inner == slice(c, from, 1)
      separated == split(inner, ",")
      parts == [i \in 1..Len(separated) |-> trim(separated[i])]
  IN  IF Len(parts) >= 3 THEN rgba(parts[1], parts[2], parts[3], a) ELSE c

\* lines 94-124: the color c with the alpha, written a, put into it
embedAlpha(c, a) ==
  IF startsWith(c, <<"r", "g", "b", "a", "(">>) THEN functional(c, 5, a)
  ELSE IF startsWith(c, <<"r", "g", "b", "(">>) THEN functional(c, 4, a)
  ELSE IF c[1] = "#"
       THEN LET short == slice(c, 1, 0)
                hex == IF Len(short) = 3 THEN doubled(short) ELSE short
            IN  IF Len(hex) = 6
                THEN rgba(numberText(parseInt(SubSeq(hex, 1, 2))),
                          numberText(parseInt(SubSeq(hex, 3, 4))),
                          numberText(parseInt(SubSeq(hex, 5, 6))), a)
                ELSE c
       ELSE c

\* a cache key that leaves the alpha out
cacheKeyOfColor(c, a) == c

\* `${c}|${alpha}`
cacheKey(c, a) == c \o <<"|">> \o a

\* the cache with one more entry
cacheSet(cache, key, result) ==
  [k \in (DOMAIN cache) \cup {key} |-> IF k = key THEN result ELSE cache[k]]

\* colorWithAlpha(color, alpha) called with the module's cache: the value
\* returned and the cache after the call
colorWithAlpha(cache, color, alpha) ==
  LET c == trim(color)
  IN  IF c = <<>> THEN [value |-> c, cache |-> cache]
      ELSE IF alpha.type \in {"undefined", "null"}
           THEN [value |-> c, cache |-> cache]
      ELSE IF alpha.thousandths = 1000 THEN [value |-> c, cache |-> cache]
      ELSE
        LET key == cacheKey(c, alphaText(alpha))
        IN  IF key \in DOMAIN cache
            THEN [value |-> cache[key], cache |-> cache]
            ELSE
              LET result == embedAlpha(c, alphaText(alpha))
                  kept == IF Cardinality(DOMAIN cache) > _COLOR_CACHE_MAX_SIZE
                          THEN EmptyCache
                          ELSE cache
              IN  [value |-> result, cache |-> cacheSet(kept, key, result)]

\* the colors handed to colorWithAlpha: short and long hex, padded with
\* blanks, rgb(), rgba(), a named color, a hex color of a wrong length, a hex
\* color with a letter that is no digit, rgb() with two parts, a blank string
ColorList ==
  << <<"#", "a", "b", "c">>,
     <<" ", "#", "A", "0", "b", "1", "c", "2", " ">>,
     <<"r", "g", "b", "(", "1", ",", "2", ",", " ", "3", ")">>,
     <<"r", "g", "b", "a", "(", "1", ",", " ", "2", ",", " ", "3", ",", " ",
       "0", ".", "2", ")">>,
     <<"r", "e", "d">>,
     <<"#", "a", "b">>,
     <<"#", "1", "g", "0">>,
     <<"r", "g", "b", "(", "1", ",", "2", ")">>,
     <<" ">> >>

Colors == {ColorList[i] : i \in 1..Len(ColorList)}

\* the colors that reach the cache, in the order of ColorList
Cacheable == SelectSeq(ColorList, LAMBDA color : trim(color) # <<>>)

\* alpha values that return before the cache is looked at
BypassAlphas == {Undefined, Null, Number(1000)}

\* the first alpha of the sweep
HalfOpaque == Number(500)

\* the calls made at any time: every color without an alpha to apply, and a
\* few colors half opaque
Calls ==
  (Colors \X BypassAlphas) \cup ({Cacheable[i] : i \in 1..3} \X {HalfOpaque})

\* the i-th call of a sweep over ever new pairs of color and alpha
Sweep(i) ==
  <<Cacheable[((i - 1) % Len(Cacheable)) + 1],
    Number(HalfOpaque.thousandths + ((i - 1) \div Len(Cacheable)))>>

ColorInit ==
  /\ Unmounted
  /\ input = <<>>
  /\ output = NoCall

\* one call of colorWithAlpha
Call(color, alpha) ==
  LET out == colorWithAlpha(_colorAlphaCache, color, alpha)
  IN  /\ _colorAlphaCache' = out.cache
      /\ output' = [fn |-> "colorWithAlpha",
                    color |-> color,
                    alpha |-> alpha,
                    value |-> out.value]
      /\ UNCHANGED <<Component, window, canvases, setupCache>>

ColorWithAlpha(color, alpha) ==
  /\ Call(color, alpha)
  /\ UNCHANGED steps

\* the next call of the sweep; steps counts the calls of the sweep
SweepColorWithAlpha ==
  /\ steps < MaxSweep
  /\ Call(Sweep(steps + 1)[1], Sweep(steps + 1)[2])
  /\ steps' = steps + 1

ColorNext ==
  \/ \E call \in Calls : ColorWithAlpha(call[1], call[2])
  \/ SweepColorWithAlpha

SpecColor == ColorInit /\ [][ColorNext]_vars

----------------------------------------------------------------------------
(* Properties *)

\* C1: starting with 0 < minZoomLimit <= currentZoom <= maxZoomLimit, after any
\* sequence of mouse, wheel and touch events the zoom factor is still within
\* [minZoomLimit, maxZoomLimit]; a zoom past a limit is clamped and no handler
\* throws because of it (a handler throws only when the canvas is missing).
ZoomWithinLimits ==
  /\ RLt(I(0), state.minZoomLimit)
  /\ RLe(state.minZoomLimit, state.currentZoom)
  /\ RLe(state.currentZoom, state.maxZoomLimit)
  /\ threw => ~state.canvas

\* a wheel or pinch zoom-in past maxZoomLimit has just been applied, clamped:
\* no zoom factor of the model takes the initial zoom to maxZoomLimit exactly
ZoomClampedAtMax ==
  /\ last.kind \in {"wheel", "touchmove"}
  /\ rendered = 1
  /\ state.zoomable
  /\ state.currentZoom = state.maxZoomLimit
  /\ Len(fingers) # 1

\* the world coordinate under the canvas point (cx, cy) in state st
WorldAt(st, cx, cy) ==
  << RDiv(RSub(RSub(cx, Rat(CanvasSize.width, 2)), st.panX), st.currentZoom),
     RDiv(RSub(RSub(cy, Rat(CanvasSize.height, 2)), st.panY), st.currentZoom) >>

\* the focal point of a pinch: the midpoint of the two touches
Midpoint(touches) ==
  << Rat(Local(touches[1])[1] + Local(touches[2])[1], 2),
     Rat(Local(touches[1])[2] + Local(touches[2])[2], 2) >>

\* C2: every accepted zoom (wheel or pinch) keeps the world coordinate under its
\* focal point fixed: (c - W/2 - pan) / currentZoom is the same before and after,
\* also when the new zoom was clamped to a limit.
ZoomToPointFixed ==
  [][ /\ (last'.kind = "wheel" /\ rendered' = 1)
           => WorldAt(state', I(last'.at[1]), I(last'.at[2]))
                = WorldAt(state, I(last'.at[1]), I(last'.at[2]))
      /\ (last'.kind = "touchmove" /\ Len(fingers') = 2 /\ rendered' = 1)
           => WorldAt(state', Midpoint(fingers')[1], Midpoint(fingers')[2])
                = WorldAt(state, Midpoint(fingers')[1], Midpoint(fingers')[2])
    ]_vars

\* a zoom has been applied and clamped to maxZoomLimit while the pan offset is
\* not zero
ClampedZoomMovedPan ==
  /\ last.kind \in {"wheel", "touchmove"}
  /\ Len(fingers) # 1
  /\ rendered = 1
  /\ state.currentZoom = state.maxZoomLimit
  /\ state.panX # I(0)
  /\ state.panY # I(0)

\* the zoom factor of a wheel event
WheelFactor(deltaY) == IF deltaY > 0 THEN WheelZoomOut ELSE WheelZoomIn

\* the zoom st.currentZoom * factor lies past a limit st is already at
PastReachedLimit(st, factor) ==
  \/ /\ RLe(st.maxZoomLimit, st.currentZoom)
     /\ RLt(st.maxZoomLimit, RMul(st.currentZoom, factor))
  \/ /\ RLe(st.currentZoom, st.minZoomLimit)
     /\ RLt(RMul(st.currentZoom, factor), st.minZoomLimit)

ViewUnchanged ==
  /\ state'.panX = state.panX
  /\ state'.panY = state.panY
  /\ state'.currentZoom = state.currentZoom

\* the client position of a canvas position
Client(c) == <<c[1] + CanvasRect.left, c[2] + CanvasRect.top>>

\* C3: a wheel or pinch zoom whose proposed zoom lies past a limit that the
\* current zoom has already reached (at or above maxZoomLimit and growing, at or
\* below minZoomLimit and shrinking) is rejected: panX, panY and currentZoom stay
\* as they are and scheduleRender is not called.
ZoomPastLimitRejected ==
  [][ /\ \A deltaY \in {-1, 1} :
           ( /\ last'.kind = "wheel"
             /\ PastReachedLimit(state, WheelFactor(deltaY))
             /\ Wheel(Client(last'.at), deltaY) )
             => (ViewUnchanged /\ rendered' = 0)
      /\ ( /\ last'.kind = "touchmove"
           /\ Len(fingers') = 2
           /\ state.lastTouchDistance > 0
           /\ PastReachedLimit(state,
                Rat(PointerDistance(getEventCoordinates(fingers'[1]),
                                    getEventCoordinates(fingers'[2])),
                    state.lastTouchDistance)) )
           => (ViewUnchanged /\ rendered' = 0)
    ]_vars

\* a wheel event on a zoomable component at maxZoomLimit has just been rejected
WheelRejectedAtMax ==
  /\ last.kind = "wheel"
  /\ rendered = 0
  /\ state.zoomable
  /\ state.canvas
  /\ state.currentZoom = state.maxZoomLimit

\* the exact hit at canvas position at, under the pan offset of st
ExactHit(st, at) ==
  findHoveredNode(RSub(I(at[1]), st.panX), RSub(I(at[2]), st.panY), st.renderedNodes)

\* the proximity hit at canvas position at, under the pan offset of st
ProximityHit(st, at) ==
  findHoveredLeafByVoronoi(RSub(I(at[1]), st.panX), RSub(I(at[2]), st.panY),
                           st.voronoiData,
                           IF st.leafHoverTolerance = <<>> THEN 15
                           ELSE st.leafHoverTolerance[1])

\* squared distance between two canvas positions
Displacement2(a, b) == (a[1] - b[1]) * (a[1] - b[1]) + (a[2] - b[2]) * (a[2] - b[2])

\* C4: with a click callback registered and the release point over a node, a
\* mouse up after a mouse down, or the end of a single touch, calls the click
\* callback exactly once with that node id if the squared displacement from the
\* down position is < 25, and does not call it when it is >= 25 (25 included).
TapVsDrag ==
  [][ /\ ( /\ last'.kind = "mouseup"
           /\ state.onNodeClick /\ state.canvas
           /\ state.mouseDown # <<>>
           /\ ExactHit(state, last'.at) # NullId )
           => clicked' = IF Displacement2(last'.at, state.mouseDown) < 25
                         THEN <<ExactHit(state, last'.at)>> ELSE <<>>
      /\ ( /\ last'.kind = "touchend"
           /\ Len(fingers) = 1 /\ ~multiTouch
           /\ state.onNodeClick /\ state.canvas
           /\ state.touchStart # <<>>
           /\ ExactHit(state, last'.at) # NullId )
           => clicked' = IF Displacement2(last'.at, state.touchStart) < 25
                         THEN <<ExactHit(state, last'.at)>> ELSE <<>>
    ]_vars

\* a mouse button has been released over a node at squared distance exactly 25
\* from the mouse down, and the click callback was not called
ReleaseAtThresholdIsDrag ==
  /\ last.kind = "mouseup"
  /\ state.onNodeClick /\ state.canvas
  /\ state.mouseDown # <<>>
  /\ Displacement2(last.at, state.mouseDown) = 25
  /\ ExactHit(state, last.at) # NullId
  /\ clicked = <<>>

VisualUnchanged ==
  /\ ViewUnchanged
  /\ state'.hoveredNodeId = state.hoveredNodeId

\* C5: a handler calls scheduleRender only when it changed panX, panY,
\* currentZoom or hoveredNodeId: if none of the four differs after the handler,
\* scheduleRender was not called (also for a drag move with zero delta and a
\* pinch move with zoom factor 1).
RenderOnlyOnVisualChange ==
  [][ VisualUnchanged => rendered' = 0 ]_vars

\* C6: with panning enabled, after a pointer down at p0 and pointer moves ending
\* at pn, the pan offset is its value at the pointer down plus (pn - p0),
\* unbounded; each move adds the delta from the last recorded pointer position
\* and records the new position.
DragPanning ==
  /\ [](dragFrom # <<>> =>
          /\ state.panX = RAdd(dragFrom[2], I(state.lastMouseX - dragFrom[4]))
          /\ state.panY = RAdd(dragFrom[3], I(state.lastMouseY - dragFrom[5])))
  /\ [][ ( /\ \/ last'.kind = "mousemove"
              \/ last'.kind = "touchmove" /\ Len(fingers') = 1
           /\ state.canvas /\ state.isDragging /\ state.pannable )
           => /\ state'.panX = RAdd(state.panX, I(last'.at[1] - state.lastMouseX))
              /\ state'.panY = RAdd(state.panY, I(last'.at[2] - state.lastMouseY))
              /\ state'.lastMouseX = last'.at[1]
              /\ state'.lastMouseY = last'.at[2]
     ]_vars

\* a mouse drag is in progress whose second move has just been handled and has
\* moved the pan offset away from its value at the mouse down
DraggedAway ==
  /\ dragFrom # <<>>
  /\ last.kind = "mousemove"
  /\ steps >= 3
  /\ state.panX # dragFrom[2]
  /\ state.panY # dragFrom[3]

\* C7: hover resolution at (pointer - pan) takes the exact point-in-circle hit
\* first and the proximity hit only when the exact hit is null and a proximity
\* index exists; hoveredNodeId becomes the exact hit whenever there is one, and
\* null when both are null.
HoverExactFirst ==
  [][ ( /\ \/ last'.kind = "mousemove" /\ ~state.isDragging
           \/ last'.kind = "touchstart" /\ Len(fingers') = 1
        /\ state.canvas
        /\ Len(state.renderedNodes) > 0 )
        => state'.hoveredNodeId =
             IF ExactHit(state, last'.at) # NullId THEN ExactHit(state, last'.at)
             ELSE IF state.voronoiData # <<>> THEN ProximityHit(state, last'.at)
             ELSE NullId
    ]_vars

\* the pointer has moved to a point inside a node's circle whose nearest leaf,
\* another node, is within the hover tolerance: the exact hit is hovered
ExactHitBeatsProximity ==
  /\ last.kind = "mousemove"
  /\ state.canvas /\ ~state.isDragging
  /\ ExactHit(state, last.at) # NullId
  /\ state.hoveredNodeId = ExactHit(state, last.at)
  /\ state.voronoiData # <<>>
  /\ ProximityHit(state, last.at) \notin {NullId, state.hoveredNodeId}

\* C8: a click resolves its node in the composite order (exact hit, then
\* proximity hit), so the id handed to the click callback is the id that hover
\* resolution gives for the same state and pointer position.
ClickMatchesHover ==
  [][ ( /\ last'.kind = "mouseup"
        /\ state.onNodeClick /\ state.canvas
        /\ state.mouseDown # <<>>
        /\ Displacement2(last'.at, state.mouseDown) < 25
        /\ Len(state.renderedNodes) > 0 )
        => clicked' = IF resolveHover(state, last'.at[1], last'.at[2]) # NullId
                      THEN <<resolveHover(state, last'.at[1], last'.at[2])>>
                      ELSE <<>>
    ]_vars

\* C9: with the canvas handle missing every handler is a no-op: it does not
\* throw and leaves the interaction state as it is.
MissingCanvasNoOp ==
  [][ ~state.canvas => (~threw' /\ state' = state) ]_vars

\* C10: a two-touch move whose touches coincide (distance 0), or whose recorded
\* baseline distance is 0, skips the zoom update: currentZoom, panX and panY stay
\* as they are.
DegeneratePinchSkipped ==
  [][ ( /\ last'.kind = "touchmove"
        /\ Len(fingers') = 2
        /\ state.canvas
        /\ \/ fingers'[1] = fingers'[2]
           \/ state.lastTouchDistance = 0 )
        => ViewUnchanged
    ]_vars

\* C11: a touch end that leaves exactly one touch resets the pinch baseline to
\* 0 and, with panning enabled, arms dragging with the remaining touch's
\* position as the last pointer position; the single-touch move that follows
\* pans by exactly its position minus that remaining position.
TouchEndRearmsPan ==
  [][ /\ ( /\ last'.kind = "touchend"
           /\ Len(fingers') = 1
           /\ state.canvas )
           => /\ state'.lastTouchDistance = 0
              /\ state.pannable
                   => /\ state'.isDragging
                      /\ state'.lastMouseX = Local(fingers'[1])[1]
                      /\ state'.lastMouseY = Local(fingers'[1])[2]
      /\ ( /\ last.kind = "touchend"
           /\ Len(fingers) = 1
           /\ state.canvas /\ state.pannable
           /\ last'.kind = "touchmove" )
           => /\ state'.panX = RAdd(state.panX, I(last'.at[1] - Local(fingers[1])[1]))
              /\ state'.panY = RAdd(state.panY, I(last'.at[2] - Local(fingers[1])[2]))
    ]_vars

\* the remaining finger of a two-finger gesture has moved and panned the view
RemainingTouchPanned ==
  /\ last.kind = "touchmove"
  /\ Len(fingers) = 1
  /\ multiTouch
  /\ steps = 4
  /\ rendered = 1
  /\ state.currentZoom = I(1)
  /\ state.panX # I(0)

\* the zoom-to-point update of a pinch: the zoom is multiplied by current
\* distance / baseline distance and clamped, the world point under the midpoint
\* of the two touches stays where it is
PinchUpdate ==
  LET current == Sqrt(Displacement2(Local(fingers'[1]), Local(fingers'[2])))
      baseline == state.lastTouchDistance
      mid == Midpoint(fingers')
  IN  /\ baseline > 0
      /\ state'.currentZoom =
           RMax(state.minZoomLimit,
                RMin(state.maxZoomLimit,
                     RMul(state.currentZoom, Rat(current, baseline))))
      /\ WorldAt(state', mid[1], mid[2]) = WorldAt(state, mid[1], mid[2])

\* C12: while two touches are active a touch move is pinch-zoom only: it never
\* adds the pointer delta to the pan, and any change to panX, panY and
\* currentZoom is exactly the zoom-to-point update with the midpoint of the two
\* touches as focal point and current distance / previous distance as factor.
TwoTouchMoveIsPinchOnly ==
  [][ ( /\ last'.kind = "touchmove"
        /\ Len(fingers') = 2
        /\ state.canvas )
        => /\ ViewUnchanged \/ PinchUpdate
           /\ state'.lastMouseX = state.lastMouseX
           /\ state'.lastMouseY = state.lastMouseY
           /\ state'.isDragging = state.isDragging
    ]_vars

\* a pinch has zoomed while dragging was armed by the first touch, and the
\* first touch is no longer where dragging recorded it
PinchedWhileArmed ==
  /\ last.kind = "touchmove"
  /\ Len(fingers) = 2
  /\ rendered = 1
  /\ state.isDragging /\ state.pannable
  /\ <<state.lastMouseX, state.lastMouseY>> # Local(fingers[1])
  /\ state.currentZoom # I(1)

\* C13: a touch gesture during which two touches were active at the same time
\* never invokes the click callback, in whatever order the fingers are lifted
\* and wherever the last finger is released.
NoTapAfterMultiTouch ==
  [][ (last'.kind = "touchend" /\ multiTouch) => clicked' = <<>> ]_vars

\* the ids of the children of id in the index
ChildIds(id, index) ==
  IF id \in DOMAIN index
  THEN {childId(index[id][i]) : i \in 1..Len(index[id])}
  ELSE {}

\* the nodes reached from id by 1 to n parent-to-child links
RECURSIVE Below(_, _, _)
Below(id, index, n) ==
  IF n = 0 THEN {}
  ELSE ChildIds(id, index) \cup UNION {Below(k, index, n - 1) : k \in ChildIds(id, index)}

\* the proper descendants of id
ProperDescendants(id, index) == Below(id, index, MaxTreeNodes)

\* the elements of a sequence
Elements(seq) == {seq[i] : i \in 1..Len(seq)}

\* C14: for a tree-shaped index and any node id, getDescendantIds returns
\* exactly the proper descendants of the node: each of them once, never the node
\* itself, and nothing for a leaf or for an id that is no key of the index.
DescendantsAreClosure ==
  output.fn = "getDescendantIds"
    => LET index == input.parentToChildrenNodeMap
           expected == ProperDescendants(output.nodeId, index)
       IN  /\ Elements(output.value) = expected
           /\ Len(output.value) = Cardinality(expected)
           /\ output.nodeId \notin Elements(output.value)
           /\ (ChildIds(output.nodeId, index) = {}) => output.value = <<>>

\* the descendants of the root of a tree with a grandchild have been computed
GrandchildrenFound ==
  /\ output.fn = "getDescendantIds"
  /\ output.nodeId = "root"
  /\ Len(output.value) = 3
  /\ \E id \in Elements(output.value) :
       id \notin ChildIds("root", input.parentToChildrenNodeMap)

\* the collapsed ids that have a rendered position
Anchored(collapsedNodeIds) ==
  {id \in Elements(collapsedNodeIds) : id \in DOMAIN input.nodeIdToRenderedNodeMap}

\* C15: the keys of the map computeCollapsedPositions returns are exactly the
\* proper descendants of the collapsed nodes that have a rendered position,
\* whatever the iteration order; with one collapsed node every descendant is
\* mapped to that node's rendered (x, y), and no other id gets an override.
OverridesAreDescendants ==
  output.fn = "computeCollapsedPositions"
    => LET index == input.parentToChildrenNodeMap
           anchored == Anchored(output.collapsedNodeIds)
       IN  /\ DOMAIN output.value
                = UNION {ProperDescendants(id, index) : id \in anchored}
           /\ \A id \in anchored :
                Len(output.collapsedNodeIds) = 1
                  => \A d \in ProperDescendants(id, index) :
                       output.value[d] = input.nodeIdToRenderedNodeMap[id]

\* one node with two descendants and a sibling has been collapsed
SubtreeCollapsed ==
  /\ output.fn = "computeCollapsedPositions"
  /\ output.collapsedNodeIds = <<"a">>
  /\ DOMAIN output.value = {"b", "c"}
  /\ output.value["b"] = [x |-> 200, y |-> 200]
  /\ DOMAIN input.nodeIdToRenderedNodeMap = TreeNodes

UnpositionedIdsInert ==
  output.fn = "computeCollapsedPositions"
    => LET positioned(id) == id \in DOMAIN input.nodeIdToRenderedNodeMap
       IN  /\ Anchored(output.collapsedNodeIds) = {}
                => DOMAIN output.value = {}
           /\ output.value
                = computeCollapsedPositions(
                    SelectSeq(output.collapsedNodeIds, positioned),
                    input.parentToChildrenNodeMap, input.nodeIdToRenderedNodeMap)

\* a collapsed root without a rendered position was processed before a
\* positioned node: only the latter's descendants are overridden
UnpositionedParentSkipped ==
  /\ output.fn = "computeCollapsedPositions"
  /\ output.collapsedNodeIds = <<"root", "a">>
  /\ "root" \notin DOMAIN input.nodeIdToRenderedNodeMap
  /\ ChildIds("root", input.parentToChildrenNodeMap) = {"a", "c"}
  /\ DOMAIN output.value = {"b"}

\* squared distance from the query point to leaf entry i of the index
QueryDist2(i) ==
  Dist2(I(input.point[1]), I(input.point[2]),
        input.voronoiData[i].x, input.voronoiData[i].y)

\* the query point is within radius + tolerance of leaf entry i
WithinReach(i) ==
  RLe(QueryDist2(i),
      I((input.voronoiData[i].radius + input.tolerance)
          * (input.voronoiData[i].radius + input.tolerance)))

\* the leaf entries no other entry is nearer to the query point than
NearestEntries ==
  {i \in 1..Len(input.voronoiData) :
     \A j \in 1..Len(input.voronoiData) : RLe(QueryDist2(i), QueryDist2(j))}

\* C18: the approximate leaf hit considers the nearest leaf only: the result is
\* the id of the leaf entry nearest to the point if the point is within
\* radius + tolerance of it, and null otherwise, also when a farther leaf with
\* a larger radius would pass its own radius + tolerance test.
NearestLeafOnly ==
  (output.fn = "findHoveredLeafByVoronoi" /\ input.voronoiData # <<>>)
    => \E i \in NearestEntries :
         output.value = IF WithinReach(i) THEN input.voronoiData[i].nodeId
                        ELSE NullId

\* the nearest leaf is out of reach and the result is null although a farther,
\* larger leaf is within its own radius + tolerance
FartherLeafIgnored ==
  /\ output.fn = "findHoveredLeafByVoronoi"
  /\ input.voronoiData # <<>>
  /\ output.value = NullId
  /\ \E j \in 1..Len(input.voronoiData) : j \notin NearestEntries /\ WithinReach(j)

\* the rendered nodes that are members of the leaf set
RenderedLeaves ==
  IF input.renderedNodes = <<>> \/ input.leafNodes = <<>> THEN {}
  ELSE {i \in 1..Len(input.renderedNodes[1]) :
          input.renderedNodes[1][i].id \in input.leafNodes[1]}

\* C19: the proximity index is null whenever fewer than two rendered nodes are
\* members of the leaf set or an input is null; without an index the
\* approximate leaf hit returns null and hover resolution gives exactly the
\* exact hit.
AbsentIndexIsInert ==
  /\ (output.fn = "buildLeafVoronoi" /\ Cardinality(RenderedLeaves) < 2)
       => output.value = <<>>
  /\ (output.fn = "findHoveredLeafByVoronoi" /\ input.voronoiData = <<>>)
       => output.value = NullId
  /\ (output.fn = "resolveHover" /\ input.voronoiData = <<>>)
       => output.value = findHoveredNode(I(input.point[1]), I(input.point[2]),
                                         input.renderedNodes[1])

\* with one leaf rendered there is no index, and a point just outside the
\* leaf's circle resolves to no node
NoIndexNoFallback ==
  /\ output.fn = "resolveHover"
  /\ Cardinality(RenderedLeaves) = 1
  /\ input.voronoiData = <<>>
  /\ input.point = <<4, 0>>
  /\ input.tolerance = 2
  /\ output.value = NullId

\* C20: easeInOutCubic is monotonically non-decreasing on [0, 1]: t1 < t2
\* gives ease(t1) <= ease(t2); and ease(0) = 0, ease(0.5) = 0.5, ease(1) = 1.
EaseMonotone ==
  output.fn = "easeInOutCubic"
    => /\ RLt(input.t1, input.t2) => RLe(output.value1, output.value2)
       /\ input.t1 = I(0) => output.value1 = I(0)
       /\ input.t1 = Rat(1, 2) => output.value1 = Rat(1, 2)
       /\ input.t1 = I(1) => output.value1 = I(1)

\* the midpoint and a later progress value have been eased: the midpoint maps
\* to itself, the later value to more than itself and less than 1
EasedPastMidpoint ==
  /\ output.fn = "easeInOutCubic"
  /\ input.t1 = Rat(1, 2)
  /\ output.value1 = Rat(1, 2)
  /\ RLt(input.t1, input.t2)
  /\ RLt(input.t2, output.value2)
  /\ RLt(output.value2, I(1))

\* C22: a mouse down moves nothing: panX, panY, currentZoom and hoveredNodeId
\* stay as they are and no render is scheduled; it records the down position,
\* and sets the dragging flag and the last pointer position only when panning
\* is enabled.
MouseDownMovesNothing ==
  [][ (last'.kind = "mousedown" /\ state.canvas)
        => /\ ViewUnchanged
           /\ state'.hoveredNodeId = state.hoveredNodeId
           /\ rendered' = 0
           /\ state'.mouseDown = last'.at
           /\ IF state.pannable
              THEN /\ state'.isDragging
                   /\ <<state'.lastMouseX, state'.lastMouseY>> = last'.at
              ELSE /\ state'.isDragging = state.isDragging
                   /\ state'.lastMouseX = state.lastMouseX
                   /\ state'.lastMouseY = state.lastMouseY
    ]_vars

\* the mouse went down on a node other than the hovered one, after a wheel
\* zoom had moved the view
PressedAwayFromHover ==
  /\ last.kind = "mousedown"
  /\ state.mouseDown = last.at
  /\ state.isDragging
  /\ state.hoveredNodeId # NullId
  /\ ExactHit(state, last.at) \notin {NullId, state.hoveredNodeId}
  /\ state.currentZoom # I(1)

\* the events of the mouse: pointer and wheel
MouseKinds == {"mousemove", "mousedown", "mouseup", "mouseleave", "wheel"}

\* C23: after a mouse up or a mouse leave the dragging flag is false, and the
\* mouse moves that follow leave panX and panY as they are until the next mouse
\* down: a move with the flag down does not pan and does not raise the flag,
\* and of the mouse events only a mouse down raises it.  A mouse leave also
\* sets hoveredNodeId to null, and schedules a render only if it was not null.
ReleasedMouseDoesNotPan ==
  [][ /\ last'.kind \in {"mouseup", "mouseleave"} => ~state'.isDragging
      /\ (last'.kind = "mousemove" /\ ~state.isDragging)
           => /\ state'.panX = state.panX
              /\ state'.panY = state.panY
              /\ ~state'.isDragging
      /\ (last'.kind \in MouseKinds /\ ~state.isDragging /\ state'.isDragging)
           => last'.kind = "mousedown"
      /\ last'.kind = "mouseleave"
           => /\ state'.hoveredNodeId = NullId
              /\ rendered' = IF state.hoveredNodeId # NullId THEN 1 ELSE 0
    ]_vars

\* the mouse went down, was released or left, and then moved elsewhere: the
\* view has not moved
MovedAfterRelease ==
  /\ last.kind = "mousemove"
  /\ steps = 3
  /\ state.canvas /\ state.pannable
  /\ state.mouseDown # <<>>
  /\ state.mouseDown # last.at
  /\ ~state.isDragging
  /\ state.panX = I(0) /\ state.panY = I(0)

\* C24: with zoomable = false no wheel event and no two-touch start, move or
\* end changes currentZoom, panX or panY or schedules a render.
ZoomDisabledIsInert ==
  [][ ( /\ ~state.zoomable
        /\ \/ last'.kind = "wheel"
           \/ last'.kind \in {"touchstart", "touchmove"} /\ Len(fingers') = 2
           \/ last'.kind = "touchend" /\ Len(fingers) = 2 )
        => (ViewUnchanged /\ rendered' = 0)
    ]_vars

\* with zooming disabled two fingers are down and one has moved away from the
\* other: no baseline was recorded and the zoom is what it was
PinchedWithZoomDisabled ==
  /\ ~state.zoomable /\ state.canvas
  /\ last.kind = "touchmove"
  /\ Len(fingers) = 2
  /\ fingers[1] # fingers[2]
  /\ state.lastTouchDistance = 0
  /\ state.currentZoom = I(1)

\* the focal point of the zoom gesture that the last event made, if it is one
ZoomFocus ==
  IF last'.kind = "wheel" THEN <<I(last'.at[1]), I(last'.at[2])>>
  ELSE Midpoint(fingers')

\* C25: with pannable = false no handler sets the dragging flag (isDragging
\* implies pannable), and no event changes panX or panY by dragging: the pan
\* changes only in the zoom-to-point update of a wheel event or a pinch.
PanDisabledNeverDrags ==
  /\ [](state.isDragging => state.pannable)
  /\ [][ ( /\ ~state.pannable
           /\ <<state'.panX, state'.panY>> # <<state.panX, state.panY>> )
           => /\ \/ last'.kind = "wheel"
                 \/ last'.kind = "touchmove" /\ Len(fingers') = 2
              /\ state.zoomable
              /\ WorldAt(state', ZoomFocus[1], ZoomFocus[2])
                   = WorldAt(state, ZoomFocus[1], ZoomFocus[2])
       ]_vars

\* with panning disabled the mouse was pressed and moved, and a wheel zoom
\* about a point off the centre moved the pan
PanMovedByZoomOnly ==
  /\ ~state.pannable /\ state.canvas
  /\ last.kind = "wheel"
  /\ state.mouseDown # <<>>
  /\ <<state.lastMouseX, state.lastMouseY>> # state.mouseDown
  /\ ~state.isDragging
  /\ state.panX # I(0)

\* C29: with panning enabled, when a mouse down at p0 is followed by moves
\* only and by a mouse up, recognised as a click, at the position pn of the
\* last move, the coordinate that is hit-tested (pn minus the pan) is p0 minus
\* the pan at the mouse down: the click goes to the node that was under the
\* pointer at the mouse down.
ClickResolvedAtDownPoint ==
  [][ ( /\ last'.kind = "mouseup"
        /\ dragFrom # <<>>
        /\ dragFrom[1] = "mouse"
        /\ state.canvas /\ state.onNodeClick
        /\ Displacement2(last'.at, state.mouseDown) < 25
        /\ <<state.lastMouseX, state.lastMouseY>> = last'.at )
        => /\ RSub(I(last'.at[1]), state.panX) = RSub(I(dragFrom[4]), dragFrom[2])
           /\ RSub(I(last'.at[2]), state.panY) = RSub(I(dragFrom[5]), dragFrom[3])
           /\ clicked' =
                LET id == findHoveredNode(RSub(I(dragFrom[4]), dragFrom[2]),
                                          RSub(I(dragFrom[5]), dragFrom[3]),
                                          state.renderedNodes)
                IN  IF id # NullId THEN <<id>> ELSE <<>>
    ]_vars

\* the mouse went down on the root, dragged the view by less than the click
\* threshold onto where a leaf was, and went up there: the root was clicked
ClickedNodeUnderDownPoint ==
  /\ last.kind = "mouseup"
  /\ state.mouseDown = <<0, 0>>
  /\ last.at = <<3, 0>>
  /\ state.panX = I(3)
  /\ clicked = <<"root">>

\* C26: on every two-touch move that applies a zoom the baseline of the zoom
\* factor is the distance the two touches had at the two-touch event right
\* before, which is their distance just before the move: the baseline is never
\* stale, also after a third touch came and went.
PinchBaselineFresh ==
  [][ ( /\ last'.kind = "touchmove"
        /\ Len(fingers') = 2
        /\ rendered' = 1 )
        => state.lastTouchDistance
             = Sqrt(Displacement2(Local(fingers[1]), Local(fingers[2])))
    ]_vars

\* every override is the position of a collapsed proper ancestor, and a
\* collapsed node is overridden only below another collapsed node
OverridesComeFromAncestors ==
  output.fn = "computeCollapsedPositions"
    => LET index == input.parentToChildrenNodeMap
           anchored == Anchored(output.collapsedNodeIds)
       IN  /\ \A id \in DOMAIN output.value :
                \E c \in anchored :
                  /\ id \in ProperDescendants(c, index)
                  /\ output.value[id] = input.nodeIdToRenderedNodeMap[c]
           /\ \A c \in Elements(output.collapsedNodeIds) \cap DOMAIN output.value :
                \E outer \in Elements(output.collapsedNodeIds) \ {c} :
                  c \in ProperDescendants(outer, index)

\* C30: every entry id -> pos of the map computeCollapsedPositions returns has
\* for pos the rendered (x, y) of a collapsed node that is a proper ancestor of
\* id; a collapsed node is a key only if it is a descendant of another
\* collapsed node; and the call leaves its three arguments as they were.
CollapseIsPure ==
  /\ []OverridesComeFromAncestors
  /\ [][input' = input]_vars

\* the root and a node below it are collapsed: the inner node sits on the
\* root's position and its own child on the inner node's
NestedCollapse ==
  /\ output.fn = "computeCollapsedPositions"
  /\ output.collapsedNodeIds = <<"root", "a">>
  /\ DOMAIN input.nodeIdToRenderedNodeMap = TreeNodes
  /\ "a" \in DOMAIN output.value
  /\ output.value["a"] = [x |-> 100, y |-> 100]
  /\ "b" \in ChildIds("a", input.parentToChildrenNodeMap)
  /\ output.value["b"] = [x |-> 200, y |-> 200]

\* the device pixel ratio a call of setupCanvas works with
PixelRatio == effectivePixelRatio(window)

\* C21: a call of setupCanvas on a canvas allocates the canvas's buffer anew
\* (assigns width and height, scales the context again) exactly when the tuple
\* (canvas, width, height, devicePixelRatio) differs from the tuple of the most
\* recent call that returned a context; otherwise it returns that call's context
\* and leaves the canvas as it is; and whenever a context is returned, the
\* buffer is width x dpr by height x dpr.  The tuple of the most recent call
\* that returned a context is what setupCache holds: a call that returns a
\* context stores its tuple, a call that returns none stores nothing.
SetupCanvasMemoized ==
  [][ steps' = steps + 1
        => LET canvas == output'.canvas
               call == <<canvas, output'.width, output'.height, PixelRatio>>
               established == <<setupCache._lastCanvasRef, setupCache._lastWidth,
                                setupCache._lastHeight, setupCache._lastDpr>>
               fresh == setupCache._cachedCtx = NoContext \/ call # established
           IN  IF canvas = NoCanvas
               THEN /\ output'.value = NoContext
                    /\ canvases' = canvases
                    /\ setupCache' = setupCache
               ELSE /\ fresh <=> canvases'[canvas].allocations
                                   = canvases[canvas].allocations + 1
                    /\ fresh => /\ canvases'[canvas].width = output'.width * PixelRatio
                                /\ canvases'[canvas].height = output'.height * PixelRatio
                                /\ output'.value = getContext[canvas]
                    /\ ~fresh => /\ output'.value = setupCache._cachedCtx
                                 /\ canvases' = canvases
                    /\ \A other \in CanvasRefs \ {canvas} :
                         canvases'[other] = canvases[other]
                    /\ IF output'.value = NoContext
                       THEN setupCache' = setupCache
                       ELSE /\ setupCache'._cachedCtx = output'.value
                            /\ <<setupCache'._lastCanvasRef, setupCache'._lastWidth,
                                 setupCache'._lastHeight, setupCache'._lastDpr>> = call
                            /\ canvases'[canvas].width = output'.width * PixelRatio
                            /\ canvases'[canvas].height = output'.height * PixelRatio
                            /\ canvases'[canvas].context.scale = PixelRatio
    ]_vars

\* on a screen of pixel ratio 2, a call returned canvas A's context without
\* allocating: the buffer it was given two calls ago is still the right one
CachedContextReturned ==
  /\ output.fn = "setupCanvas"
  /\ output.canvas = "A"
  /\ output.value = "ctxA"
  /\ ~output.reallocated
  /\ window.devicePixelRatio = 2
  /\ canvases["A"].allocations = 2
  /\ canvases["A"].width = 2 * output.width
  /\ steps = 3

\* the string of characters of "rgba(170, 187, 204, 0.5)"
HalfOpaqueShortHex ==
  <<"r", "g", "b", "a", "(", "1", "7", "0", ",", " ", "1", "8", "7", ",", " ",
    "2", "0", "4", ",", " ", "0", ".", "5", ")">>

\* what colorWithAlpha returns is what it computes with nothing cached, for
\* the color as given and for the color trimmed
SameAsUncached ==
  output.fn = "colorWithAlpha"
    => /\ output.value = colorWithAlpha(EmptyCache, output.color, output.alpha).value
       /\ output.value
            = colorWithAlpha(EmptyCache, trim(output.color), output.alpha).value

\* C27: the cache of colorWithAlpha is transparent: a call returns the string
\* an uncached computation returns, which depends on the trimmed color and
\* the alpha only, whatever was called before and whenever the cache was
\* cleared; with alpha 1, null or undefined the call returns the trimmed color
\* and leaves the cache as it is.
ColorCacheTransparent ==
  /\ []SameAsUncached
  /\ [][ ( /\ output'.fn = "colorWithAlpha"
           /\ output'.alpha \in BypassAlphas )
           => /\ output'.value = trim(output'.color)
              /\ _colorAlphaCache' = _colorAlphaCache
       ]_vars

\* the cache was cleared and the short hex color, cached before the clear, has
\* been computed and cached again
RecomputedAfterClear ==
  /\ output.fn = "colorWithAlpha"
  /\ output.color = <<"#", "a", "b", "c">>
  /\ output.alpha = HalfOpaque
  /\ output.value = HalfOpaqueShortHex
  /\ steps > _COLOR_CACHE_MAX_SIZE + 1
  /\ Cardinality(DOMAIN _colorAlphaCache) = 2
  /\ cacheKey(trim(output.color), alphaText(output.alpha)) \in DOMAIN _colorAlphaCache

\* C28: the color+alpha cache never holds more than _COLOR_CACHE_MAX_SIZE
\* (256) entries.
ColorCacheBounded ==
  Cardinality(DOMAIN _colorAlphaCache) <= _COLOR_CACHE_MAX_SIZE

====
